---- MODULE Spec2Model ----
(***************************************************************************)
(* Model of the orchestration core of mysqlx/connection.py:                *)
(*   - RouterManager / Connection.connect      (priority-tiered failover)  *)
(*   - Connection._execute_prepared_pipeline   (prepared-statement modes)  *)
(*   - ConnectionPool / PoolsManager / Session (pooling, penalties)        *)
(* Each part has its own specification over the shared variables; the     *)
(* variables of the other parts keep their initial values.                 *)
(***************************************************************************)
EXTENDS Integers, Sequences, FiniteSets, TLC

(***************************************************************************)
(* Bounds of the model.                                                    *)
(***************************************************************************)
MaxRouters == 3

\* Entries of settings["routers"] after repeated calls.
MaxEndpoints == 4

\* Statements executed on the modelled Connection.
NStmts == 1

\* Cap of a statement's execution counter.
MaxExec == 2

\* One pipeline run makes at most three protocol calls (deallocate, prepare,
\* execute); any of them may raise.
MaxProtocolCalls == 3

\* Sessions created through one Client (each by its own thread).
NSessions == 3

\* The Client's max_size option (ConnectionPool.pool_max_size).
MaxSize == 1

\* PooledConnection objects created during one run.
MaxConns == 3

\* Advances of the clock during one run.
MaxTicks == 2
NEndpoints == 2

\* Penalties (seconds) of an unavailable pool.
PENALTY_SERVER_OFFLINE == 1000000
PENALTY_MAXED_OUT == 60
PENALTY_NO_ADD_INFO == 3600
PENALTY_CONN_TIMEOUT == 3600
PENALTY_WRONG_PASSW == 86400
PENALTY_RESTARTING == 60
PENALTY_POOL_ERROR == 2
PENALTY_OTHER == 100000
ER_SERVER_SHUTDOWN == 1053

\* The priority _get_connections_settings gives the endpoint host/port.
HOST_PRIORITY == 100
ER_DBACCESS_DENIED == 1044

(***************************************************************************)
(* State.                                                                  *)
(***************************************************************************)
\* RouterManager and Connection.connect
VARIABLES
    routers,            \* RouterManager._routers: priorities, sorted (index = router)
    router_available,   \* Router["available"] of each router of the directory
    cur_priority_idx,   \* RouterManager._cur_priority_idx (0-based, as in the code)
    can_failover,       \* RouterManager._can_failover
    cpc,                \* position of Connection.connect
    router,             \* local `router` of connect(): index, None, or DefaultRouter
    error,              \* local `error` of connect(): the last caught exception
    attempts,           \* history: the routers handed to stream.connect, in order
    raised              \* what connect() or the constructor raised

routerVars == <<routers, router_available, cur_priority_idx, can_failover,
                cpc, router, error, attempts, raised>>

\* The prepared-statement pipeline of one Connection
VARIABLES
    stmts,                    \* the Statement objects executed on the Connection
    prepared_stmt_ids,        \* Connection._prepared_stmt_ids
    prepared_stmt_supported,  \* Connection._prepared_stmt_supported
    stmt_counter,             \* Connection._stmt_counter
    stream_open,              \* Connection.stream.is_open()
    sent,                     \* the messages the last execution dispatched, in order
    outcome,                  \* how the last execution ended
    last,                     \* the last operation: its kind, statement and `repeated`
    server_ids,               \* history: the ids prepared and not deallocated
    id_fault,                 \* history: an id was prepared twice or deallocated twice
    prepare_rejected          \* history: the server rejected a PREPARE on this Connection

stmtVars == <<stmts, prepared_stmt_ids, prepared_stmt_supported, stmt_counter,
              stream_open, sent, outcome, last, server_ids, id_fault,
              prepare_rejected>>

\* ConnectionPool, PoolsManager, Session and Client
VARIABLES
    pools,          \* the ConnectionPool objects of the client, in registry order
    conns,          \* the PooledConnection objects created so far
    sessions,       \* per Session: position of its thread, locals, _connection
    cur_priority,   \* settings["cur_priority"] of the Client's shared settings
    client_closed,  \* Client.close() has run
    client_close_raised,  \* history: that Client.close() raised
    now,            \* datetime.now(), in seconds
    ticks,          \* history: how often the clock advanced
    checked_at      \* history: time of the latest _check_unavailable_pools

poolVars == <<pools, conns, sessions, cur_priority, client_closed,
              client_close_raised, now, ticks, checked_at>>

\* PoolsManager.create_pool, Connection.close_session, set_pool_unavailable
VARIABLES
    registry,       \* PoolsManager.__pools[client_id]: the names of its pools
    creators,       \* per thread: position and locals of its create_pool call
    active_result,  \* Connection._active_result is not None
    last_error,     \* history: the error handed to set_pool_unavailable
    stream,         \* Connection.stream of connect(): the SocketStream's fields
    handshake,      \* connect(): TLS settings, server capability, history of
                    \* the caught errors, credentials sent, message raised
    auth,           \* Connection._authenticate: setting, position, messages
    settings        \* the settings dict: its "routers" list, as built and now

auxVars == <<registry, creators, active_result, last_error, stream, handshake,
             auth, settings>>

vars == <<routerVars, stmtVars, poolVars, auxVars>>

(***************************************************************************)
(* Generic helpers.                                                        *)
(***************************************************************************)
Range(s) == {s[i] : i \in DOMAIN s}

SeqsUpTo(S, n) == UNION {[1..k -> S] : k \in 0..n}

\* The missing value (None).
None == 0

(***************************************************************************)
(* PART 1.  RouterManager and Connection.connect                           *)
(***************************************************************************)

\* A router configured without a priority (router.get("priority") is None).
NoPriority == -1

\* The implicit endpoint built from the settings when no router is configured.
DefaultRouter == -2

\* Priorities a configuration may give: absent, three tiers, one out of range.
PriorityValues == {NoPriority, 0, 50, 100, 101}

\* router["priority"] = 100 for a router without priority.
DefaultPriority(cfg) ==
    [i \in DOMAIN cfg |-> IF cfg[i] = NoPriority THEN 100 ELSE cfg[i]]

\* Insert x into a sequence sorted in descending order, after its equals.
RECURSIVE InsertDesc(_, _)
InsertDesc(x, s) ==
    IF s = <<>> THEN <<x>>
    ELSE IF x > Head(s) THEN <<x>> \o s
    ELSE <<Head(s)>> \o InsertDesc(x, Tail(s))

\* self._routers.sort(key=priority, reverse=True)
RECURSIVE SortDesc(_)
SortDesc(s) ==
    IF s = <<>> THEN <<>>
    ELSE InsertDesc(s[Len(s)], SortDesc(SubSeq(s, 1, Len(s) - 1)))

\* The error _ensure_priorities raises for a configuration, or "none".
PriorityError(cfg) ==
    LET missing == Cardinality({i \in DOMAIN cfg : cfg[i] = NoPriority})
        \* the loop raises 4007 at the first router above 100
    IN  IF \E i \in DOMAIN cfg : cfg[i] > 100 THEN "ProgrammingError4007"
        ELSE IF 0 < missing /\ missing < Len(cfg) THEN "ProgrammingError4000"
        ELSE "none"

\* RouterManager._ensure_priorities: the sorted router list.
ensure_priorities(cfg) == SortDesc(DefaultPriority(cfg))

\* The distinct priorities of a descending list, in order.
RECURSIVE Dedup(_)
Dedup(s) ==
    IF Len(s) <= 1 THEN s
    ELSE IF s[1] = s[2] THEN Dedup(Tail(s))
    ELSE <<s[1]>> \o Dedup(Tail(s))

\* RouterManager.routers_priority_list
routers_priority_list == Dedup(routers)

\* RouterManager._routers_directory[priority]: the routers of one tier.
routers_directory(priority) == {i \in DOMAIN routers : routers[i] = priority}

\* Mutant: the availability filter is dropped.
get_available_routers_unfiltered(priority) == routers_directory(priority)

\* RouterManager._get_available_routers
get_available_routers(priority) ==
    {i \in routers_directory(priority) : router_available[i]}

\* RouterManager._get_random_connection_params: every router random.randint
\* may pick, or None when the tier has no available router.
get_random_connection_params(priority) ==
    IF get_available_routers(priority) = {} THEN {None}
    ELSE get_available_routers(priority)

\* Mutant: failover is switched off only when the last tier is empty.
RECURSIVE search_router_late(_, _)
search_router_late(idx, cur) ==
    LET len == Len(routers_priority_list)
        found == get_random_connection_params(cur)
    IN  IF found # {None} \/ idx >= len
        THEN {[router |-> r, idx |-> idx,
               failover |-> IF idx = len - 1
                               /\ Cardinality(get_available_routers(cur)) < 1
                            THEN FALSE ELSE can_failover] : r \in found}
        ELSE search_router_late(idx + 1,
                                IF idx + 1 < len
                                THEN routers_priority_list[idx + 2] ELSE cur)

\* The `while search` loop of get_next_router, entered with the tier index
\* idx and the priority cur: the possible results (router, index, failover).
RECURSIVE search_router(_, _)
search_router(idx, cur) ==
    LET len == Len(routers_priority_list)
        found == get_random_connection_params(cur)
    IN  IF found # {None} \/ idx >= len
        THEN {[router |-> r, idx |-> idx,
               failover |-> IF idx = len - 1
                               /\ Cardinality(get_available_routers(cur)) < 2
                            THEN FALSE ELSE can_failover] : r \in found}
        ELSE search_router(idx + 1,
                           IF idx + 1 < len
                           THEN routers_priority_list[idx + 2] ELSE cur)

\* RouterManager.get_next_router: the possible results.
get_next_router ==
    IF routers = <<>>
    THEN {[router |-> DefaultRouter, idx |-> cur_priority_idx, failover |-> FALSE]}
    ELSE search_router(cur_priority_idx,
                       routers_priority_list[cur_priority_idx + 1])

\* Router.get_connection_params on the result: None has no such method.
IsRouter(r) == r = DefaultRouter \/ r \in DOMAIN routers

\* RouterManager.__init__ and the locals of connect() for a configuration.
router_manager_init ==
    \E cfg \in SeqsUpTo(PriorityValues, MaxRouters) :
        /\ routers = IF PriorityError(cfg) = "none"
                     THEN ensure_priorities(cfg) ELSE <<>>
        /\ router_available = [i \in 1..Len(cfg) |-> TRUE]
        /\ cur_priority_idx = 0
        /\ can_failover = TRUE
        /\ cpc = IF PriorityError(cfg) = "none" THEN "connect" ELSE "config_error"
        /\ router = None
        /\ error = "none"
        /\ attempts = <<>>
        /\ raised = PriorityError(cfg)

\* SocketStream.__init__: no socket, no TLS, not a Unix socket.  `wrapped`
\* tells whether self._socket is the TLS socket wrap_socket returned.
SocketStream ==
    [socket |-> FALSE, wrapped |-> FALSE, is_ssl |-> FALSE, is_socket |-> FALSE]

\* The settings connect() reads (ssl-mode is DISABLED, the endpoint is a Unix
\* socket path), the capability of the server of the current attempt, and the
\* history of one connect() call.  caps is what get_capabilites returned in
\* the latest attempt: "unread", or the server advertises "tls", or is "plain".
Handshake(ssl_disabled, unix) ==
    [ssl_disabled |-> ssl_disabled, unix |-> unix, caps |-> "unread",
     credentials |-> FALSE, errors |-> <<>>, message |-> "none"]

\* Connection.__init__: a new stream, for each combination of the settings.
stream_init ==
    /\ stream = SocketStream
    /\ \E ssl_disabled \in BOOLEAN, unix \in BOOLEAN :
          handshake = Handshake(ssl_disabled, unix)

\* One way an attempt can end: returned ("ok"), with an exception the except
\* clause of connect() catches ("caught"), or with one it lets pass ("raised").
Out(kind, err, st, credentials) ==
    [kind |-> kind, err |-> err, stream |-> st, credentials |-> credentials,
     caps |-> "unread"]

\* The outcomes S of the steps that follow get_capabilites.
caps_read(caps, S) == {[o EXCEPT !.caps = caps] : o \in S}

\* SocketStream.close: self._socket = None.
stream_close(st) == [st EXCEPT !.socket = FALSE, !.wrapped = FALSE]

\* A request and its reply on the stream st fail: sendall turns the OSError
\* into OperationalError, read raises RuntimeError or lets the OSError pass.
\* Neither closes the socket.
exchange_fails(st, credentials) ==
    {Out("raised", "OperationalError", st, credentials)}
    \cup {Out("caught", e, st, credentials) : e \in {"OSError", "RuntimeError"}}

\* _set_tls_capabilities returns at once: ssl-mode DISABLED or a Unix socket.
tls_skipped(st, hs) == hs.ssl_disabled \/ st.is_socket

\* The body of the try block of connect() for a server that advertises TLS
\* (caps = "tls") or not: every way it can end, with the stream it leaves.
attempt_outcomes(st, hs, caps) ==
    LET \* stream.connect succeeded: a new plain socket
        connected == [st EXCEPT !.socket = TRUE, !.wrapped = FALSE,
                                !.is_socket = hs.unix]
        \* stream.connect failed: create_connection assigns nothing, the
        \* AF_UNIX branch has assigned the unconnected socket
        refused == IF hs.unix
                   THEN [st EXCEPT !.socket = TRUE, !.wrapped = FALSE]
                   ELSE st
        secured == [connected EXCEPT !.wrapped = TRUE, !.is_ssl = TRUE]
        skip == tls_skipped(connected, hs)
        ready == IF skip THEN connected ELSE secured
        connect_fails_ == {Out("caught", e, refused, FALSE) :
                              e \in {"OSError", "timeout"}}
        capabilities_fail == exchange_fails(connected, FALSE)
        \* "tls" not in caps: close_connection(), then OperationalError
        tls_missing ==
            {Out("raised", "OperationalError", stream_close(connected), FALSE)}
            \cup exchange_fails(connected, FALSE)
        \* set_capabilities(tls=True) and set_ssl
        tls_fails ==
            exchange_fails(connected, FALSE)
            \cup {Out("raised", "InterfaceError", stream_close(connected), FALSE),
                  Out("raised", "InterfaceError", connected, FALSE),
                  Out("caught", "OSError", connected, FALSE)}
        compression_fails == {Out("raised", "NotSupportedError", ready, FALSE)}
        authenticate_fails ==
            exchange_fails(ready, TRUE)
            \cup {Out("raised", "InterfaceError", ready, TRUE)}
        authenticated == {Out("ok", "none", ready, TRUE)}
    IN  connect_fails_ \cup capabilities_fail
        \cup caps_read(caps,
                IF ~skip /\ caps # "tls" THEN tls_missing
                ELSE (IF skip THEN {} ELSE tls_fails)
                     \cup compression_fails \cup authenticate_fails
                     \cup authenticated)

\* The outcomes of one kind, for either capability of the server.
attempt_ends(kind) ==
    {o \in attempt_outcomes(stream, handshake, "tls")
           \cup attempt_outcomes(stream, handshake, "plain") : o.kind = kind}

\* The stream and the history after an attempt that ended as `end`.
attempt_recorded(end) ==
    /\ stream' = end.stream
    /\ handshake' = [handshake EXCEPT
          !.caps = end.caps,
          !.credentials = end.credentials,
          !.errors = IF end.kind = "caught" THEN Append(@, end.err) ELSE @]

\* connect(): loop head and the call of get_next_router.
connect_next ==
    /\ cpc = "connect"
    /\ can_failover
    /\ \E res \in get_next_router :
        /\ router' = res.router
        /\ cur_priority_idx' = res.idx
        /\ can_failover' = res.failover
        /\ IF IsRouter(res.router)
           THEN /\ cpc' = "attempt"
                /\ attempts' = Append(attempts, res.router)
                /\ raised' = raised
           ELSE \* None.get_connection_params(): not an OSError, propagates
                /\ cpc' = "raised"
                /\ attempts' = attempts
                /\ raised' = "AttributeError"
    /\ UNCHANGED <<routers, router_available, error>>
    /\ UNCHANGED <<stmtVars, poolVars, auxVars>>

\* Mutant: the failed router is not marked unavailable.
connect_attempt_fails_unmarked ==
    /\ cpc = "attempt"
    /\ \E end \in attempt_ends("caught") :
          /\ error' = end.err
          /\ attempt_recorded(end)
    /\ cpc' = "connect"
    /\ UNCHANGED <<routers, router_available, cur_priority_idx, can_failover,
                   router, attempts, raised>>
    /\ UNCHANGED <<stmtVars, poolVars, registry, creators, active_result,
                   last_error, auth, settings>>

\* The attempt fails with an OSError or RuntimeError (socket.timeout is an
\* OSError): error = err; router.set_unavailable().
connect_attempt_fails ==
    /\ cpc = "attempt"
    /\ \E end \in attempt_ends("caught") :
          /\ error' = end.err
          /\ attempt_recorded(end)
    /\ router_available' =
          IF router \in DOMAIN router_available
          THEN [router_available EXCEPT ![router] = FALSE]
          ELSE router_available
    /\ cpc' = "connect"
    /\ UNCHANGED <<routers, cur_priority_idx, can_failover, router, attempts, raised>>
    /\ UNCHANGED <<stmtVars, poolVars, registry, creators, active_result,
                   last_error, auth, settings>>

\* The attempt raises an error that connect() does not catch (InterfaceError,
\* OperationalError, NotSupportedError from negotiation or authentication).
connect_attempt_raises ==
    /\ cpc = "attempt"
    /\ cpc' = "raised"
    /\ \E end \in attempt_ends("raised") :
          /\ raised' = end.err
          /\ attempt_recorded(end)
    /\ UNCHANGED <<routers, router_available, cur_priority_idx, can_failover,
                   router, error, attempts>>
    /\ UNCHANGED <<stmtVars, poolVars, registry, creators, active_result,
                   last_error, auth, settings>>

\* The attempt succeeds: connect() returns.
connect_attempt_succeeds ==
    /\ cpc = "attempt"
    /\ cpc' = "connected"
    /\ \E end \in attempt_ends("ok") : attempt_recorded(end)
    /\ UNCHANGED <<routers, router_available, cur_priority_idx, can_failover,
                   router, error, attempts, raised>>
    /\ UNCHANGED <<stmtVars, poolVars, registry, creators, active_result,
                   last_error, auth, settings>>

\* The error connect() raises after the loop.
exhausted_error ==
    IF error = "timeout" THEN "TimeoutError" ELSE "InterfaceError"

\* The form of the message: len(self._routers) <= 1 or not.
exhausted_message == IF Len(routers) <= 1 THEN "single" ELSE "multi"

\* The loop ends with can_failover() false: raise.
connect_exhausted ==
    /\ cpc = "connect"
    /\ ~can_failover
    /\ cpc' = "exhausted"
    /\ raised' = exhausted_error
    /\ handshake' = [handshake EXCEPT !.message = exhausted_message]
    /\ UNCHANGED <<routers, router_available, cur_priority_idx, can_failover,
                   router, error, attempts>>
    /\ UNCHANGED <<stmtVars, poolVars, registry, creators, active_result,
                   last_error, stream, auth, settings>>

\* The router part at rest (the other parts' specifications leave it there).
RouterIdle ==
    /\ routers = <<>>
    /\ router_available = <<>>
    /\ cur_priority_idx = 0
    /\ can_failover = TRUE
    /\ cpc = "idle"
    /\ router = None
    /\ error = "none"
    /\ attempts = <<>>
    /\ raised = "none"

NextRouter ==
    \/ connect_next
    \/ connect_attempt_fails
    \/ connect_attempt_raises
    \/ connect_attempt_succeeds
    \/ connect_exhausted

(***************************************************************************)
(* Connection._authenticate: the choice of the authentication mechanism   *)
(* and the protocol calls of each mechanism, one action per call.          *)
(***************************************************************************)

\* settings.get("auth"): not configured, or one of the mechanisms.
AuthSettings == {"none", "PLAIN", "SHA256_MEMORY", "MYSQL41"}

\* The protocol calls of _authenticate_plain, _authenticate_mysql41 and
\* _authenticate_sha256_memory, in the order of the code.
mechanism_calls(m) ==
    IF m = "PLAIN"
    THEN <<"send_auth_start", "read_auth_ok">>
    ELSE <<"send_auth_start", "read_auth_continue", "send_auth_continue",
           "read_auth_ok">>

\* What a protocol call can raise: a send ends in SocketStream.sendall
\* (OperationalError), a read in SocketStream.read (RuntimeError, OSError) or
\* in the server's rejection (InterfaceError).
auth_call_errors(call) ==
    IF call \in {"send_auth_start", "send_auth_continue"}
    THEN {"OperationalError"}
    ELSE {"InterfaceError", "RuntimeError", "OSError"}

\* One _authenticate call: the configured mechanism, the flags of the stream,
\* the position, the mechanisms entered, the messages sent, the exceptions
\* the mechanisms raised, and how the call ended.
Authentication(setting, ssl, unix) ==
    [setting |-> setting, is_ssl |-> ssl, is_socket |-> unix, pc |-> "new",
     mechanism |-> "none", step |-> 0, attempted |-> <<>>, sent |-> <<>>,
     failed |-> <<>>, error |-> "none", message |-> "none"]

\* SocketStream.is_secure
is_secure(a) == a.is_ssl \/ a.is_socket

\* The branch of _authenticate without a configured mechanism on a stream
\* that is not secure: the two try blocks.
in_fallback(a) == a.setting = "none" /\ ~is_secure(a)

\* An exception leaves _authenticate.
authenticate_raises(a, e, msg) ==
    [a EXCEPT !.pc = "raised", !.error = e, !.message = msg]

\* _authenticate_plain without the is_secure test.
authenticate_plain_unchecked(a) ==
    [a EXCEPT !.attempted = Append(@, "PLAIN"), !.pc = "running",
              !.mechanism = "PLAIN", !.step = 0]

\* Entering _authenticate_plain: the is_secure test comes before any message.
authenticate_plain(a) ==
    LET b == [a EXCEPT !.attempted = Append(@, "PLAIN")]
    IN  IF ~is_secure(a)
        THEN authenticate_raises(
                 [b EXCEPT !.failed = Append(@, <<"PLAIN", "InterfaceError">>)],
                 "InterfaceError", "PLAIN not allowed")
        ELSE [b EXCEPT !.pc = "running", !.mechanism = "PLAIN", !.step = 0]

\* Entering _authenticate_mysql41 or _authenticate_sha256_memory.
authenticate_challenge(a, m) ==
    [a EXCEPT !.attempted = Append(@, m), !.pc = "running", !.mechanism = m,
              !.step = 0]

\* The first mechanism with the two try blocks in the other order.
first_mechanism_sha256_first(a) ==
    IF a.setting # "none" THEN a.setting
    ELSE IF is_secure(a) THEN "PLAIN"
    ELSE "SHA256_MEMORY"

enter_mechanism(a, m) ==
    IF m = "PLAIN" THEN authenticate_plain(a) ELSE authenticate_challenge(a, m)

\* The mechanism _authenticate enters first.
first_mechanism(a) ==
    IF a.setting # "none" THEN a.setting
    ELSE IF is_secure(a) THEN "PLAIN"
    ELSE "MYSQL41"

authenticate_init ==
    \E setting \in AuthSettings, ssl \in BOOLEAN, unix \in BOOLEAN :
        auth = Authentication(setting, ssl, unix)

AuthIdle == auth = Authentication("none", FALSE, FALSE)

\* A settings dict with the key "routers": the list as the configuration was
\* built (the priority of each router, NoPriority for a router without the
\* key), the list as it is now, and whether "host" and "port" are set too.
\* cur_priority is the key get_connection adds (NoPriority: no such key),
\* raised the exception of the latest call.
Settings(cfg, host) ==
    [built |-> cfg, routers |-> cfg, host |-> host,
     cur_priority |-> NoPriority, raised |-> "none"]

SettingsIdle == settings = Settings(<<>>, FALSE)

\* _authenticate is called and enters its first mechanism.
authenticate ==
    /\ auth.pc = "new"
    /\ auth' = enter_mechanism(auth, first_mechanism(auth))
    /\ UNCHANGED <<routerVars, stmtVars, poolVars, registry, creators,
                   active_result, last_error, stream, handshake, settings>>

\* The next protocol call of the running mechanism succeeds; after the last
\* one the mechanism and _authenticate return.
protocol_call_returns ==
    /\ auth.pc = "running"
    /\ LET calls == mechanism_calls(auth.mechanism)
           call == calls[auth.step + 1]
           messages == IF call \in {"send_auth_start", "send_auth_continue"}
                       THEN Append(auth.sent, <<auth.mechanism, call>>)
                       ELSE auth.sent
       IN  auth' = [auth EXCEPT
                       !.step = @ + 1, !.sent = messages,
                       !.pc = IF auth.step + 1 = Len(calls)
                              THEN "authenticated" ELSE "running"]
    /\ UNCHANGED <<routerVars, stmtVars, poolVars, registry, creators,
                   active_result, last_error, stream, handshake, settings>>

\* The next protocol call raises e.  Only in the two try blocks is an
\* InterfaceError caught: after MYSQL41 the second mechanism is entered,
\* after SHA256_MEMORY the combined InterfaceError is raised.
protocol_call_raises ==
    /\ auth.pc = "running"
    /\ \E e \in auth_call_errors(
                    mechanism_calls(auth.mechanism)[auth.step + 1]) :
        LET a == [auth EXCEPT !.failed = Append(@, <<auth.mechanism, e>>)]
        IN  auth' =
                IF in_fallback(a) /\ e = "InterfaceError"
                THEN IF a.mechanism = "MYSQL41"
                     THEN authenticate_challenge(a, "SHA256_MEMORY")
                     ELSE authenticate_raises(a, "InterfaceError",
                                              "MYSQL41 and SHA256_MEMORY")
                ELSE authenticate_raises(a, e, a.mechanism)
    /\ UNCHANGED <<routerVars, stmtVars, poolVars, registry, creators,
                   active_result, last_error, stream, handshake, settings>>

NextAuth ==
    \/ authenticate
    \/ protocol_call_returns
    \/ protocol_call_raises

(***************************************************************************)
(* PART 2.  The prepared-statement pipeline of one Connection              *)
(***************************************************************************)

Statements == 1..NStmts

\* A new Statement: not prepared, no id, never executed.
NewStatement(changed, flag) ==
    [prepared |-> FALSE, changed |-> changed, repeated |-> FALSE,
     deallocate_prepare_execute |-> flag, exec_counter |-> 0, stmt_id |-> None]

\* list.remove(x): the first occurrence is removed.
RECURSIVE Remove(_, _)
Remove(s, x) ==
    IF s = <<>> THEN <<>>
    ELSE IF Head(s) = x THEN Tail(s)
    ELSE <<Head(s)>> \o Remove(Tail(s), x)

\* The state a pipeline run works on: the Connection fields, the statement,
\* the messages written so far and whether an exception ended the run.
PipelineState(st) ==
    [stmt |-> st, ids |-> prepared_stmt_ids, supported |-> prepared_stmt_supported,
     counter |-> stmt_counter, sent |-> <<>>, aborted |-> FALSE,
     srv |-> server_ids, fault |-> id_fault, rejected |-> prepare_rejected]

\* One protocol.send_* call: the failAt-th call of the run raises.
send(S, kind, failAt) ==
    IF S.aborted THEN S
    ELSE IF Len(S.sent) + 1 = failAt THEN [S EXCEPT !.aborted = TRUE]
    ELSE [S EXCEPT !.sent = Append(@, <<kind, S.stmt.stmt_id>>)]

\* The id of the statement in a Prepare::Prepare message: its stmt_id, or for
\* a statement without one the next id of Connection.get_next_statement_id.
\* The statement keeps the id once the server accepted the prepare.
get_next_statement_id(S) ==
    IF S.stmt.stmt_id # None THEN S
    ELSE [S EXCEPT !.counter = @ + 1, !.stmt.stmt_id = S.counter + 1]

\* Mutant: the id stays in the list of outstanding ids.
deallocate_statement_keeps_id(S, failAt) ==
    IF S.aborted \/ ~S.stmt.prepared THEN S
    ELSE LET S1 == send(S, "deallocate", failAt)
         IN  IF S1.aborted THEN S1
             ELSE [S1 EXCEPT !.stmt.prepared = FALSE,
                             !.srv = @ \ {S.stmt.stmt_id},
                             !.fault = @ \/ S.stmt.stmt_id \notin S.srv]

\* Connection._deallocate_statement
deallocate_statement(S, failAt) ==
    IF S.aborted \/ ~S.stmt.prepared THEN S
    ELSE LET S1 == send(S, "deallocate", failAt)
         IN  IF S1.aborted THEN S1
             ELSE [S1 EXCEPT !.ids = Remove(@, S.stmt.stmt_id),
                             !.stmt.prepared = FALSE,
                             !.srv = @ \ {S.stmt.stmt_id},
                             !.fault = @ \/ S.stmt.stmt_id \notin S.srv]

\* Mutant: a rejected prepare is not remembered.
prepare_statement_forgets(S, reject, failAt) ==
    IF S.aborted THEN S
    ELSE LET S1 == send(get_next_statement_id(S), "prepare", failAt)
         IN  IF S1.aborted THEN [S EXCEPT !.aborted = TRUE]
             ELSE IF reject THEN [S EXCEPT !.sent = S1.sent, !.rejected = TRUE]
             ELSE [S1 EXCEPT !.ids = Append(@, S1.stmt.stmt_id),
                             !.stmt.prepared = TRUE,
                             !.srv = @ \cup {S1.stmt.stmt_id},
                             !.fault = @ \/ S1.stmt.stmt_id \in S1.srv]

\* Connection._prepare_statement: a rejected prepare (NotSupportedError)
\* clears _prepared_stmt_supported; any other error propagates.
prepare_statement(S, reject, failAt) ==
    IF S.aborted THEN S
    ELSE LET S1 == send(get_next_statement_id(S), "prepare", failAt)
         IN  IF S1.aborted THEN [S EXCEPT !.aborted = TRUE]
             ELSE IF reject
             THEN [S EXCEPT !.sent = S1.sent, !.supported = FALSE, !.rejected = TRUE]
             ELSE [S1 EXCEPT !.ids = Append(@, S1.stmt.stmt_id),
                             !.stmt.prepared = TRUE,
                             !.srv = @ \cup {S1.stmt.stmt_id},
                             !.fault = @ \/ S1.stmt.stmt_id \in S1.srv]

\* statement.reset_exec_counter()
reset_exec_counter(S) ==
    IF S.aborted THEN S ELSE [S EXCEPT !.stmt.exec_counter = 0]

\* statement.increment_exec_counter()
increment_exec_counter(S) ==
    IF S.aborted THEN S ELSE [S EXCEPT !.stmt.exec_counter = @ + 1]

\* Mutant: changed is left set.
clear_changed_skipped(S) == S

\* statement.changed = False
clear_changed(S) ==
    IF S.aborted THEN S ELSE [S EXCEPT !.stmt.changed = FALSE]

\* statement.deallocate_prepare_execute = False
clear_flag(S) ==
    IF S.aborted THEN S ELSE [S EXCEPT !.stmt.deallocate_prepare_execute = FALSE]

\* Prepare::Prepare (unless prepared) + Prepare::Execute, with the one-shot
\* fallback that returns before the counter is touched.
prepare_execute(S, reject, failAt) ==
    LET S1 == IF S.stmt.prepared THEN S ELSE prepare_statement(S, reject, failAt)
    IN  IF ~S1.supported THEN send(S1, "oneshot", failAt)
        ELSE send(S1, "execute", failAt)

\* Mutant: a prepared, unchanged statement is prepared again.
execute_only_reprepares(S, failAt) ==
    increment_exec_counter(
        send(send(S, "prepare", failAt), "execute", failAt))

\* Prepare::Execute of a prepared, unchanged statement.
execute_only(S, failAt) ==
    increment_exec_counter(send(S, "execute", failAt))

\* Mutant: the first execution of an unprepared statement is a one-shot.
first_execution_oneshot(S, reject, failAt) ==
    increment_exec_counter(send(S, "oneshot", failAt))

\* The branch `not changed and not repeated`.
first_execution(S, reject, failAt) ==
    LET S1 == prepare_execute(S, reject, failAt)
    IN  IF ~S1.supported THEN S1 ELSE increment_exec_counter(S1)

\* Connection._execute_prepared_pipeline
execute_prepared_pipeline(S, reject, failAt) ==
    IF ~S.supported
    THEN send(S, "oneshot", failAt)
    ELSE IF S.stmt.deallocate_prepare_execute
    THEN LET S1 == prepare_statement(deallocate_statement(S, failAt), reject, failAt)
         IN  IF ~S1.supported THEN send(S1, "oneshot", failAt)
             ELSE increment_exec_counter(
                      reset_exec_counter(clear_flag(send(S1, "execute", failAt))))
    ELSE IF S.stmt.prepared /\ ~S.stmt.changed
    THEN execute_only(S, failAt)
    ELSE IF S.stmt.changed /\ ~S.stmt.repeated
    THEN increment_exec_counter(reset_exec_counter(clear_changed(
             send(deallocate_statement(S, failAt), "oneshot", failAt))))
    ELSE IF ~S.stmt.changed /\ ~S.stmt.repeated
    THEN first_execution(S, reject, failAt)
    ELSE IF S.stmt.changed /\ S.stmt.repeated
    THEN increment_exec_counter(reset_exec_counter(clear_changed(
             send(deallocate_statement(S, failAt), "oneshot", failAt))))
    ELSE increment_exec_counter(S)

\* Connection.__init__ (fields of the pipeline) with new statements.
connection_init ==
    /\ stmts \in [Statements -> {NewStatement(c, f) : c, f \in BOOLEAN}]
    /\ prepared_stmt_ids = <<>>
    /\ prepared_stmt_supported = TRUE
    /\ stmt_counter = 0
    /\ stream_open = TRUE
    /\ sent = <<>>
    /\ outcome = "none"
    /\ last = [op |-> "none", s |-> None, repeated |-> FALSE]
    /\ server_ids = {}
    /\ id_fault = FALSE
    /\ prepare_rejected = FALSE

\* The statement part at rest.
StmtIdle ==
    /\ stmts = <<>>
    /\ prepared_stmt_ids = <<>>
    /\ prepared_stmt_supported = TRUE
    /\ stmt_counter = 0
    /\ stream_open = FALSE
    /\ sent = <<>>
    /\ outcome = "none"
    /\ last = [op |-> "none", s |-> None, repeated |-> FALSE]
    /\ server_ids = {}
    /\ id_fault = FALSE
    /\ prepare_rejected = FALSE

\* send_find / send_delete / send_update on an open Connection: the pipeline
\* under catch_network_exception.  statement.repeated is read from the
\* statement's own bookkeeping and may be either value; the server may reject
\* a prepare; the failAt-th protocol call may raise, either an
\* OperationalError (sendall), which the decorator lets pass, or an error it
\* answers with disconnect().
send_statement(s) ==
    /\ stream_open
    /\ stmts[s].exec_counter < MaxExec
    /\ \E repeated, reject \in BOOLEAN, failAt \in 0..MaxProtocolCalls :
        \E S \in {execute_prepared_pipeline(
                     PipelineState([stmts[s] EXCEPT !.repeated = repeated]),
                     reject, failAt)} :
            /\ S.aborted \/ failAt = 0
            /\ stmts' = [stmts EXCEPT ![s] = S.stmt]
            /\ prepared_stmt_ids' = S.ids
            /\ prepared_stmt_supported' = S.supported
            /\ stmt_counter' = S.counter
            /\ sent' = S.sent
            /\ \E kind \in IF S.aborted THEN {"OperationalError", "InterfaceError"}
                           ELSE {"ok"} :
                  /\ outcome' = kind
                  /\ stream_open' = (kind # "InterfaceError")
            /\ server_ids' = S.srv
            /\ id_fault' = S.fault
            /\ prepare_rejected' = S.rejected
            /\ last' = [op |-> "execute", s |-> s, repeated |-> repeated]
            \* _prepare_statement fetches the pending result first (line 1081)
            /\ active_result' = (active_result /\ \A i \in DOMAIN S.sent :
                                                     S.sent[i][1] # "prepare")
    /\ UNCHANGED <<registry, creators, last_error, stream, handshake, auth,
                   settings>>
    /\ UNCHANGED <<routerVars, poolVars>>

\* The statement is modified between executions (where(), sort(), limit(),
\* bind()): changed or deallocate_prepare_execute is set.
statement_modified(s) ==
    /\ stream_open
    /\ \E f \in {"changed", "flag"} :
        stmts' = [stmts EXCEPT ![s] =
            IF f = "changed" THEN [@ EXCEPT !.changed = TRUE]
            ELSE [@ EXCEPT !.deallocate_prepare_execute = TRUE]]
    /\ stmts' # stmts
    /\ last' = [op |-> "modify", s |-> s, repeated |-> last.repeated]
    /\ UNCHANGED <<prepared_stmt_ids, prepared_stmt_supported, stmt_counter,
                   stream_open, sent, outcome, server_ids, id_fault,
                   prepare_rejected>>
    /\ UNCHANGED <<routerVars, poolVars, auxVars>>

NextStmt ==
    \/ \E s \in Statements : send_statement(s)
    \/ \E s \in Statements : statement_modified(s)

(***************************************************************************)
(* Part 3: ConnectionPool, PoolsManager, Session and Client.               *)
(***************************************************************************)
Sessions == 1..NSessions

\* The pools of the client, by their position in the registry.
Pools == DOMAIN pools

Conns == 1..MaxConns

\* Session._connection after Session.close(): a fresh, unconnected Connection.
Unconnected == -1

\* _TIMEOUT_PENALTIES, in the order of the dict.
TIMEOUT_PENALTIES ==
    << <<"[WinError 10053]", PENALTY_MAXED_OUT>>,
       <<"[Errno 32]", PENALTY_MAXED_OUT>>,
       <<"[WinError 10061]", PENALTY_SERVER_OFFLINE>>,
       <<"[Errno 111]", PENALTY_SERVER_OFFLINE>>,
       <<"[WinError 10060]", PENALTY_CONN_TIMEOUT>>,
       <<"[Errno 11001]", PENALTY_NO_ADD_INFO>>,
       <<"[Errno -2]", PENALTY_NO_ADD_INFO>>,
       <<"Access denied", PENALTY_WRONG_PASSW>> >>

\* _TIMEOUT_PENALTIES_BY_ERR_NO.get(err_no); None when there is no entry.
TIMEOUT_PENALTIES_BY_ERR_NO(err_no) ==
    IF err_no = ER_SERVER_SHUTDOWN THEN PENALTY_RESTARTING ELSE None

\* An exception: its class, its errno and the table keys its message contains;
\* `open` tells whether the failed operation left the transport open.
Error(type, errno, msg, open) ==
    [type |-> type, errno |-> errno, msg |-> msg, open |-> open]

\* What Connection.connect() raises on a pooled (single endpoint) connection:
\* the endpoint refuses, the attempt times out, or authentication fails after
\* the transport was opened.
ConnectErrors ==
    { Error("InterfaceError", None, {"[Errno 111]"}, FALSE),
      Error("TimeoutError", None, {}, FALSE),
      Error("InterfaceError", None, {"Access denied"}, TRUE) }

PoolExhausted == Error("PoolError", None, {}, FALSE)

\* No exception: the operation succeeded.
NoError == Error("none", None, {}, TRUE)

\* ConnectionPool.__init__ at time t.
ConnectionPool(priority, t) ==
    [priority |-> priority,
     queue |-> <<>>,
     connections_openned |-> {},
     available |-> TRUE,
     timeout |-> 0,
     timeout_stamp |-> t,
     registered |-> FALSE]

\* ConnectionPool.open_connections
open_connections(pool) == Cardinality(pool.connections_openned)

\* ConnectionPool.qsize() and full() of queue.Queue(pool_max_size)
qsize(pool) == Len(pool.queue)

\* Mutant: the queue counts as full one connection too late.
full_late(pool) == qsize(pool) > MaxSize

full(pool) == qsize(pool) >= MaxSize

\* ConnectionPool.track_connection
track_connection(pool, cnx) ==
    [pool EXCEPT !.connections_openned = @ \cup {cnx}]

\* ConnectionPool.remove_connection
remove_connection(pool, cnx) ==
    [pool EXCEPT !.connections_openned = @ \ {cnx}]

\* ConnectionPool.set_unavailable at time t: only an available pool is marked.
set_unavailable(pool, time_out, t) ==
    IF pool.available
    THEN [pool EXCEPT !.available = FALSE, !.timeout_stamp = t,
                      !.timeout = time_out]
    ELSE pool

\* ConnectionPool.set_available at time t.
set_available(pool, t) ==
    [pool EXCEPT !.available = TRUE, !.timeout_stamp = t]

\* The loop of PoolsManager.set_pool_unavailable over _TIMEOUT_PENALTIES: the
\* last key contained in the message decides.
RECURSIVE penalty_by_message(_, _, _)
penalty_by_message(msg, i, penalty) ==
    IF i > Len(TIMEOUT_PENALTIES) THEN penalty
    ELSE penalty_by_message(msg, i + 1,
             IF TIMEOUT_PENALTIES[i][1] \in msg THEN TIMEOUT_PENALTIES[i][2]
             ELSE penalty)

\* Mutant: the message is looked up before the error number.
set_pool_unavailable_message_first(pool, err, t) ==
    LET by_msg == penalty_by_message(err.msg, 1, None)
        penalty == IF by_msg # None THEN by_msg
                   ELSE TIMEOUT_PENALTIES_BY_ERR_NO(err.errno)
    IN  IF penalty # None THEN set_unavailable(pool, penalty, t)
        ELSE set_unavailable(pool, PENALTY_OTHER, t)

\* PoolsManager.set_pool_unavailable
set_pool_unavailable(pool, err, t) ==
    LET by_no == TIMEOUT_PENALTIES_BY_ERR_NO(err.errno)
        penalty == IF by_no # None THEN by_no
                   ELSE penalty_by_message(err.msg, 1, None)
    IN  IF penalty # None THEN set_unavailable(pool, penalty, t)
        ELSE set_unavailable(pool, PENALTY_OTHER, t)

\* Mutant: the length of the penalty is ignored.
check_unavailable_pools_no_penalty(P, t) ==
    [p \in Pools |->
        IF ~P[p].registered \/ P[p].available THEN P[p]
        ELSE IF t > P[p].timeout_stamp
             THEN set_available(P[p], t)
             ELSE P[p]]

\* PoolsManager._check_unavailable_pools at time t (revive not given): the
\* registered pools whose penalty has elapsed become available again.
check_unavailable_pools(P, t) ==
    [p \in Pools |->
        IF ~P[p].registered \/ P[p].available THEN P[p]
        ELSE IF t > P[p].timeout_stamp + P[p].timeout
             THEN set_available(P[p], t)
             ELSE P[p]]

\* PoolsManager._get_next_priority over the pool list.
get_next_priority(P, cur) ==
    IF cur = None THEN P[1].priority
    ELSE IF \E p \in Pools : P[p].available
         THEN P[CHOOSE p \in Pools :
                   /\ P[p].available
                   /\ \A q \in Pools : q < p => ~P[q].available].priority
         ELSE P[1].priority

\* PoolsManager._get_sublist: the available pools of priority cur from index
\* on, up to the first pool of another priority.
RECURSIVE get_sublist(_, _, _)
get_sublist(P, index, cur) ==
    IF index > Len(P) THEN {}
    ELSE IF P[index].priority # cur THEN {}
    ELSE (IF P[index].available THEN {index} ELSE {})
             \cup get_sublist(P, index + 1, cur)

\* The second loop of _get_next_pool.
RECURSIVE first_sublist(_, _, _)
first_sublist(P, index, cur) ==
    IF index > Len(P) THEN {}
    ELSE LET subpool == get_sublist(P, index, cur)
         IN  IF subpool # {} THEN subpool
             ELSE first_sublist(P, index + 1, cur)

\* PoolsManager._get_next_pool: the pools _get_random_pool chooses among
\* (empty: None is returned).
get_next_pool(P, cur) ==
    LET hits == {p \in Pools : P[p].available /\ P[p].priority = cur}
        index == IF hits = {} THEN Len(P) + 1
                 ELSE CHOOSE p \in hits : \A q \in hits : p <= q
    IN  first_sublist(P, index, cur)

\* A PooledConnection slot that no object occupies yet.
NoConnection == [pool |-> None, open |-> FALSE, server_disconnected |-> FALSE]

\* PooledConnection.__init__(pool): not connected yet.
PooledConnection(pool) ==
    [pool |-> pool, open |-> FALSE, server_disconnected |-> FALSE]

\* The next PooledConnection object (the objects are numbered as created).
FreeConns(C) == {c \in Conns : C[c].pool = None}

NewCnx(C) == CHOOSE c \in FreeConns(C) : \A d \in FreeConns(C) : c <= d

\* The pools together with the connections: what the pool operations update.
World(P, C) == [pools |-> P, conns |-> C]

\* Connection.close_connection: the transport is closed.
close_connection(C, cnx) == [C EXCEPT ![cnx].open = FALSE]

\* ConnectionPool.remove_connections, and the drain loops of get_connection:
\* every idle connection is taken from the queue, closed and untracked.
remove_connections(W, p) ==
    LET idle == Range(W.pools[p].queue)
    IN  World([W.pools EXCEPT ![p].queue = <<>>,
                              ![p].connections_openned = @ \ idle],
              [c \in Conns |-> IF c \in idle
                               THEN [W.conns[c] EXCEPT !.open = FALSE]
                               ELSE W.conns[c]])

\* A Session that get_session has not constructed yet.
\* error_list is the local list of get_connection; message holds the recorded
\* errors that the message of the raised PoolError contains.
NoSession ==
    [pc |-> "new", pool |-> None, cnx |-> None, cur_priority |-> None,
     connection |-> None, raised |-> "none", error_list |-> <<>>,
     message |-> <<>>]

\* get_connection returns cnx: Session._connection is set (line 2174).
returned(session, cnx) ==
    [session EXCEPT !.pc = "held", !.connection = cnx, !.pool = None,
                    !.cnx = None, !.cur_priority = None, !.error_list = <<>>]

\* get_connection or Session.close raises to the caller.
raises(session, pc, type) ==
    [session EXCEPT !.pc = pc, !.raised = type, !.pool = None, !.cnx = None,
                    !.cur_priority = None, !.error_list = <<>>,
                    !.message = session.error_list]

\* Mutant: the error is raised as soon as the tier of the failed pool has no
\* available pool left.
pool_failed_no_failover(s, P, C, err) ==
    LET p == sessions[s].pool
        cur == sessions[s].cur_priority
        error_list == Append(sessions[s].error_list, <<p, err.type>>)
        P1 == [P EXCEPT ![p] =
                  IF err.type = "PoolError"
                  THEN set_unavailable(@, PENALTY_POOL_ERROR, now)
                  ELSE set_pool_unavailable(@, err, now)]
        P2 == check_unavailable_pools(P1, now)
        same == get_next_pool(P2, cur)
    IN  /\ pools' = P2
        /\ conns' = C
        /\ checked_at' = now
        /\ UNCHANGED cur_priority
        /\ IF same # {}
           THEN \E q \in same :
                  sessions' = [sessions EXCEPT ![s].pc = "try",
                                               ![s].pool = q,
                                               ![s].cnx = None,
                                               ![s].error_list = error_list]
           ELSE sessions' = [sessions EXCEPT
                   ![s] = raises([@ EXCEPT !.error_list = error_list],
                                 "raised", "PoolError")]
        /\ UNCHANGED <<client_closed, client_close_raised, now, ticks>>

\* Mutant: an exhausted pool is penalized like a pool with a network fault.
pool_failed_long_penalty(s, P, C, err) ==
    LET p == sessions[s].pool
        cur == sessions[s].cur_priority
        error_list == Append(sessions[s].error_list, <<p, err.type>>)
        P1 == [P EXCEPT ![p] = set_pool_unavailable(@, err, now)]
        P2 == check_unavailable_pools(P1, now)
        same == get_next_pool(P2, cur)
        next_priority == get_next_priority(P2, cur)
        other == get_next_pool(P2, next_priority)
    IN  /\ pools' = P2
        /\ conns' = C
        /\ checked_at' = now
        /\ IF same # {}
           THEN /\ \E q \in same :
                     sessions' = [sessions EXCEPT ![s].pc = "try",
                                                  ![s].pool = q,
                                                  ![s].cnx = None,
                                                  ![s].error_list = error_list]
                /\ UNCHANGED cur_priority
           ELSE /\ cur_priority' = next_priority
                /\ IF other # {}
                   THEN \E q \in other :
                          sessions' = [sessions EXCEPT
                                          ![s].pc = "try",
                                          ![s].pool = q,
                                          ![s].cnx = None,
                                          ![s].cur_priority = next_priority,
                                          ![s].error_list = error_list]
                   ELSE sessions' = [sessions EXCEPT
                           ![s] = raises([@ EXCEPT !.error_list = error_list],
                                         "raised", "PoolError")]
        /\ UNCHANGED <<client_closed, client_close_raised, now, ticks>>

\* The except clause of the loop of get_connection (lines 2047-2070) for the
\* error err on the session's pool, the pools and connections being P and C
\* when it is caught: penalty, revival check, next pool of the tier or of the
\* next tier, or the aggregated PoolError.
pool_failed(s, P, C, err) ==
    LET p == sessions[s].pool
        cur == sessions[s].cur_priority
        error_list == Append(sessions[s].error_list, <<p, err.type>>)
        P1 == [P EXCEPT ![p] =
                  IF err.type = "PoolError"
                  THEN set_unavailable(@, PENALTY_POOL_ERROR, now)
                  ELSE set_pool_unavailable(@, err, now)]
        P2 == check_unavailable_pools(P1, now)
        same == get_next_pool(P2, cur)
        next_priority == get_next_priority(P2, cur)
        other == get_next_pool(P2, next_priority)
    IN  /\ pools' = P2
        /\ conns' = C
        /\ checked_at' = now
        /\ IF same # {}
           THEN /\ \E q \in same :
                     sessions' = [sessions EXCEPT ![s].pc = "try",
                                                  ![s].pool = q,
                                                  ![s].cnx = None,
                                                  ![s].error_list = error_list]
                /\ UNCHANGED cur_priority
           ELSE /\ cur_priority' = next_priority
                /\ IF other # {}
                   THEN \E q \in other :
                          sessions' = [sessions EXCEPT
                                          ![s].pc = "try",
                                          ![s].pool = q,
                                          ![s].cnx = None,
                                          ![s].cur_priority = next_priority,
                                          ![s].error_list = error_list]
                   ELSE sessions' = [sessions EXCEPT
                           ![s] = raises([@ EXCEPT !.error_list = error_list],
                                         "raised", "PoolError")]
        /\ UNCHANGED <<client_closed, client_close_raised, now, ticks>>

\* Client.get_session -> Session.__init__ (pooling): create_pool, then
\* get_connection up to the choice of the first pool (lines 1951-1962).
get_connection(s) ==
    /\ sessions[s].pc = "new"
    /\ ~client_closed
    /\ LET P0 == [p \in Pools |->
                    IF pools[p].registered THEN pools[p]
                    ELSE [ConnectionPool(pools[p].priority, now)
                              EXCEPT !.registered = TRUE]]
           P1 == check_unavailable_pools(P0, now)
           cur == get_next_priority(P1, cur_priority)
           first == get_next_pool(P1, cur)
       IN  /\ pools' = P1
           /\ cur_priority' = cur
           /\ checked_at' = now
           /\ IF first # {}
              THEN \E q \in first :
                     sessions' = [sessions EXCEPT ![s].pc = "try",
                                                  ![s].pool = q,
                                                  ![s].cur_priority = cur]
              ELSE sessions' = [sessions EXCEPT
                                   ![s] = raises(@, "raised", "PoolError")]
    /\ UNCHANGED <<conns, client_closed, client_close_raised, now, ticks>>
    /\ UNCHANGED <<routerVars, stmtVars, auxVars>>

\* The branch of the loop body (lines 1966, 2030, 2037): dequeue an idle
\* connection, open a new one, or wait for one.
\* Mutant: the last idle connection is not taken from the store.
choose_branch_skips_last(s) ==
    /\ sessions[s].pc = "try"
    /\ LET pool == pools[sessions[s].pool]
       IN  sessions' = [sessions EXCEPT ![s].pc =
                           IF qsize(pool) > 1 THEN "dequeue"
                           ELSE IF open_connections(pool) < MaxSize THEN "open"
                           ELSE "wait"]
    /\ UNCHANGED <<pools, conns, cur_priority, client_closed, client_close_raised, now, ticks, checked_at>>
    /\ UNCHANGED <<routerVars, stmtVars, auxVars>>

choose_branch(s) ==
    /\ sessions[s].pc = "try"
    /\ LET pool == pools[sessions[s].pool]
       IN  sessions' = [sessions EXCEPT ![s].pc =
                           IF qsize(pool) > 0 THEN "dequeue"
                           ELSE IF open_connections(pool) < MaxSize THEN "open"
                           ELSE "wait"]
    /\ UNCHANGED <<pools, conns, cur_priority, client_closed, client_close_raised, now, ticks, checked_at>>
    /\ UNCHANGED <<routerVars, stmtVars, auxVars>>

\* Lines 2032-2033: a new PooledConnection is created and tracked.
open_new_connection(s) ==
    /\ sessions[s].pc = "open"
    /\ FreeConns(conns) # {}
    /\ LET p == sessions[s].pool
           cnx == NewCnx(conns)
       IN  /\ conns' = [conns EXCEPT ![cnx] = PooledConnection(p)]
           /\ pools' = [pools EXCEPT ![p] = track_connection(@, cnx)]
           /\ sessions' = [sessions EXCEPT ![s].pc = "connect", ![s].cnx = cnx]
    /\ UNCHANGED <<cur_priority, client_closed, client_close_raised, now, ticks, checked_at>>
    /\ UNCHANGED <<routerVars, stmtVars, auxVars>>

\* Lines 2034-2036: the new connection connects and is returned.
connect_ok(s) ==
    /\ sessions[s].pc = "connect"
    /\ LET cnx == sessions[s].cnx
       IN  /\ conns' = [conns EXCEPT ![cnx].open = TRUE]
           /\ sessions' = [sessions EXCEPT ![s] = returned(@, cnx)]
    /\ UNCHANGED <<pools, cur_priority, client_closed, client_close_raised, now, ticks, checked_at>>
    /\ UNCHANGED <<routerVars, stmtVars, auxVars>>

\* Lines 2034 and 2047-2070: connect() raises; the connection stays tracked.
connect_fails(s) ==
    /\ sessions[s].pc = "connect"
    /\ \E err \in ConnectErrors :
          pool_failed(s, pools,
                      [conns EXCEPT ![sessions[s].cnx].open = err.open], err)
    /\ UNCHANGED <<routerVars, stmtVars, auxVars>>

\* What reset() / set_mysqlx_wait_timeout raise on a connection taken from the
\* queue.
ResetError == Error("InterfaceError", None, {}, TRUE)

\* Lines 1968-1983 and 2029: the idle connection works and is returned.
dequeue_ok(s) ==
    /\ sessions[s].pc = "dequeue"
    /\ LET p == sessions[s].pool
       IN  /\ qsize(pools[p]) > 0
           /\ LET cnx == Head(pools[p].queue)
              IN  /\ ~conns[cnx].server_disconnected
                  /\ pools' = [pools EXCEPT ![p].queue = Tail(@)]
                  /\ sessions' = [sessions EXCEPT ![s] = returned(@, cnx)]
    /\ UNCHANGED <<conns, cur_priority, client_closed, client_close_raised, now, ticks, checked_at>>
    /\ UNCHANGED <<routerVars, stmtVars, auxVars>>

\* Lines 1968-2029 when the dequeued connection cannot be used (it is flagged
\* server-disconnected, or its reset raises): it is closed and untracked, the
\* idle siblings are dropped, and a new connection is tracked and connected.
\* An InterfaceError of that connect is swallowed (the new, unconnected
\* connection is returned); a TimeoutError reaches the outer except clause.
dequeue_reconnect(s) ==
    /\ sessions[s].pc = "dequeue"
    /\ FreeConns(conns) # {}
    /\ LET p == sessions[s].pool
       IN  /\ qsize(pools[p]) > 0
           /\ LET cnx == Head(pools[p].queue)
                  W0 == World([pools EXCEPT ![p].queue = Tail(@)], conns)
                  W1 == IF conns[cnx].server_disconnected
                        THEN remove_connections(W0, p) ELSE W0
                  W2 == World([W1.pools EXCEPT ![p] = remove_connection(@, cnx)],
                              close_connection(W1.conns, cnx))
                  W3 == remove_connections(W2, p)
                  new == NewCnx(conns)
                  P4 == [W3.pools EXCEPT ![p] = track_connection(@, new)]
              IN  \E res \in {NoError} \cup ConnectErrors :
                    LET C4 == [W3.conns EXCEPT ![new] =
                                 [PooledConnection(p) EXCEPT !.open = res.open]]
                    IN  IF res.type = "TimeoutError"
                        THEN pool_failed(s, P4, C4, res)
                        ELSE /\ pools' = P4
                             /\ conns' = C4
                             /\ sessions' = [sessions EXCEPT
                                                ![s] = returned(@, new)]
                             /\ UNCHANGED <<cur_priority, client_closed, client_close_raised, now,
                                            ticks, checked_at>>
    /\ UNCHANGED <<routerVars, stmtVars, auxVars>>

\* Lines 1970-1974: the queue was emptied by another thread after the qsize()
\* test and stays empty for queue_timeout.
dequeue_timeout(s) ==
    /\ sessions[s].pc = "dequeue"
    /\ qsize(pools[sessions[s].pool]) = 0
    /\ pool_failed(s, pools, conns, PoolExhausted)
    /\ UNCHANGED <<routerVars, stmtVars, auxVars>>

\* Lines 2039-2044: the pool is at capacity; a connection comes back within
\* queue_timeout, is reset and returned, or its reset raises.
\* Mutant: the connection is handed out and left in the idle store.
wait_get_peeks(s) ==
    /\ sessions[s].pc = "wait"
    /\ LET p == sessions[s].pool
       IN  /\ qsize(pools[p]) > 0
           /\ sessions' = [sessions EXCEPT
                              ![s] = returned(@, Head(pools[p].queue))]
    /\ UNCHANGED <<pools, conns, cur_priority, client_closed, client_close_raised, now,
                   ticks, checked_at>>
    /\ UNCHANGED <<routerVars, stmtVars, auxVars>>

wait_get(s) ==
    /\ sessions[s].pc = "wait"
    /\ LET p == sessions[s].pool
       IN  /\ qsize(pools[p]) > 0
           /\ LET cnx == Head(pools[p].queue)
                  P1 == [pools EXCEPT ![p].queue = Tail(@)]
              IN  \/ /\ pools' = P1
                     /\ sessions' = [sessions EXCEPT ![s] = returned(@, cnx)]
                     /\ UNCHANGED <<conns, cur_priority, client_closed, client_close_raised, now,
                                    ticks, checked_at>>
                  \/ pool_failed(s, P1, conns, ResetError)
    /\ UNCHANGED <<routerVars, stmtVars, auxVars>>

\* Lines 2045-2046: nothing comes back within queue_timeout.
wait_timeout(s) ==
    /\ sessions[s].pc = "wait"
    /\ qsize(pools[sessions[s].pool]) = 0
    /\ pool_failed(s, pools, conns, PoolExhausted)
    /\ UNCHANGED <<routerVars, stmtVars, auxVars>>

\* catch_network_exception, lines 499-510: a result of the Session carries a
\* connection-closed warning; the connection is flagged.
set_server_disconnected(s) ==
    /\ sessions[s].pc = "held"
    /\ LET cnx == sessions[s].connection
       IN  /\ conns[cnx].open
           /\ ~conns[cnx].server_disconnected
           /\ conns' = [conns EXCEPT ![cnx].server_disconnected = TRUE]
    /\ UNCHANGED <<pools, sessions, cur_priority, client_closed, client_close_raised, now,
                   ticks, checked_at>>
    /\ UNCHANGED <<routerVars, stmtVars, auxVars>>

\* Session.close, line 2462: PooledConnection.close_session ->
\* ConnectionPool.add_connection(cnx) -> queue_connection.  A full queue
\* raises PoolError; a flagged connection drops the idle ones and then fails
\* in cnx.close(), which PooledConnection does not define.
close_session(s) ==
    /\ sessions[s].pc = "held"
    /\ LET cnx == sessions[s].connection
           p == conns[cnx].pool
       IN  IF full(pools[p])
           THEN /\ sessions' = [sessions EXCEPT
                                   ![s] = raises(@, "close_raised", "PoolError")]
                /\ UNCHANGED <<pools, conns>>
           ELSE IF conns[cnx].server_disconnected
           THEN LET W == remove_connections(World(pools, conns), p)
                IN  /\ pools' = W.pools
                    /\ conns' = W.conns
                    /\ sessions' = [sessions EXCEPT
                           ![s] = raises(@, "close_raised", "AttributeError")]
           ELSE /\ pools' = [pools EXCEPT ![p].queue = Append(@, cnx)]
                /\ sessions' = [sessions EXCEPT ![s].pc = "closing"]
                /\ UNCHANGED conns
    /\ UNCHANGED <<cur_priority, client_closed, client_close_raised, now, ticks, checked_at>>
    /\ UNCHANGED <<routerVars, stmtVars, auxVars>>

\* Session.close, line 2464: _connection becomes a new unconnected Connection.
close_finish(s) ==
    /\ sessions[s].pc = "closing"
    /\ sessions' = [sessions EXCEPT ![s].pc = "closed",
                                    ![s].connection = Unconnected]
    /\ UNCHANGED <<pools, conns, cur_priority, client_closed, client_close_raised, now, ticks, checked_at>>
    /\ UNCHANGED <<routerVars, stmtVars, auxVars>>

\* The Sessions in Client.sessions: those get_session has returned.
client_sessions ==
    {s \in Sessions : sessions[s].pc \in {"held", "closing", "closed",
                                          "close_raised"}}

\* Client.close: close_pool closes every tracked connection of every pool of
\* the client, in the order of the registry and of _connections_openned, and
\* unregisters each pool once its connections are closed; then every Session's
\* connection is closed.  Closing an open connection talks to the server
\* (Connection.close_session): when the server has closed the socket of
\* connection fail, read_ok raises RuntimeError, which no caller up to
\* Client.close catches; the transport of fail is closed by the finally
\* clause and the rest of Client.close does not run.
client_close ==
    /\ ~client_closed
    /\ \E p \in Pools : pools[p].registered
    /\ \E fail \in {None} \cup
                    {c \in Conns : /\ conns[c].open
                                   /\ \E p \in Pools :
                                         /\ pools[p].registered
                                         /\ c \in pools[p].connections_openned} :
          LET failing_pool == IF fail = None THEN Len(pools) + 1
                              ELSE conns[fail].pool
              reached == {c \in Conns : \E p \in Pools :
                             /\ pools[p].registered
                             /\ c \in pools[p].connections_openned
                             /\ \/ p < failing_pool
                                \/ p = failing_pool /\ c <= fail}
              held == IF fail = None
                      THEN {sessions[s].connection : s \in client_sessions}
                      ELSE {}
          IN  /\ conns' = [c \in Conns |->
                              IF c \in reached \cup held
                              THEN [conns[c] EXCEPT !.open = FALSE]
                              ELSE conns[c]]
              /\ pools' = [p \in Pools |->
                              IF p < failing_pool
                              THEN [pools[p] EXCEPT !.registered = FALSE]
                              ELSE pools[p]]
              /\ client_close_raised' = (fail # None)
    /\ client_closed' = TRUE
    /\ UNCHANGED <<sessions, cur_priority, now, ticks, checked_at>>
    /\ UNCHANGED <<routerVars, stmtVars, auxVars>>

\* Time passes: up to just before, exactly at, or just after the end of the
\* penalty of an unavailable pool.
tick ==
    /\ ticks < MaxTicks
    /\ ticks' = ticks + 1
    /\ \E p \in Pools, d \in {-1, 0, 1} :
          /\ pools[p].registered
          /\ ~pools[p].available
          /\ now' = pools[p].timeout_stamp + pools[p].timeout + d
          /\ now' > now
    /\ UNCHANGED <<pools, conns, sessions, cur_priority, client_closed, client_close_raised,
                   checked_at>>
    /\ UNCHANGED <<routerVars, stmtVars, auxVars>>

\* A Client with pooling enabled, before its first get_session; priority
\* lists the priorities of its endpoints in the order of
\* _get_connections_settings (ascending).
client_init(priority) ==
    /\ pools = [p \in DOMAIN priority |-> ConnectionPool(priority[p], 0)]
    /\ conns = [c \in Conns |-> NoConnection]
    /\ sessions = [s \in Sessions |-> NoSession]
    /\ cur_priority = None
    /\ client_closed = FALSE
    /\ client_close_raised = FALSE
    /\ now = 0
    /\ ticks = 0
    /\ checked_at = 0

\* The pool part at rest.
PoolIdle ==
    /\ pools = <<>>
    /\ conns = <<>>
    /\ sessions = <<>>
    /\ cur_priority = None
    /\ client_closed = FALSE
    /\ client_close_raised = FALSE
    /\ now = 0
    /\ ticks = 0
    /\ checked_at = 0

\* The registry of create_pool, the direct Connection and the penalty history
\* at rest.
RegistryIdle ==
    /\ registry = [subscribed |-> FALSE, pools |-> <<>>]
    /\ creators = <<>>
    /\ active_result = FALSE
    /\ last_error = NoError

\* The stream and the handshake of connect() at rest: an unconnected stream,
\* default settings.
StreamIdle ==
    /\ stream = SocketStream
    /\ handshake = Handshake(FALSE, FALSE)
    /\ AuthIdle
    /\ SettingsIdle

AuxIdle == RegistryIdle /\ StreamIdle

NextPool ==
    \/ \E s \in Sessions : get_connection(s)
    \/ \E s \in Sessions : choose_branch(s)
    \/ \E s \in Sessions : open_new_connection(s)
    \/ \E s \in Sessions : connect_ok(s)
    \/ \E s \in Sessions : connect_fails(s)
    \/ \E s \in Sessions : dequeue_ok(s)
    \/ \E s \in Sessions : dequeue_reconnect(s)
    \/ \E s \in Sessions : dequeue_timeout(s)
    \/ \E s \in Sessions : wait_get(s)
    \/ \E s \in Sessions : wait_timeout(s)
    \/ \E s \in Sessions : set_server_disconnected(s)
    \/ \E s \in Sessions : close_session(s)
    \/ \E s \in Sessions : close_finish(s)
    \/ client_close
    \/ tick

\* The application uses the client from one thread: no call starts while
\* another one is running.
single_threaded ==
    \A s \in Sessions :
        sessions[s].pc \in {"new", "held", "closed", "raised", "close_raised"}

seq_get_connection(s) == single_threaded /\ get_connection(s)

seq_set_server_disconnected(s) == single_threaded /\ set_server_disconnected(s)

seq_close_session(s) == single_threaded /\ close_session(s)

seq_client_close == single_threaded /\ client_close

\* catch_network_exception, lines 499-510, on an idle connection: a
\* SqlStatement made by Session.sql (line 2311) keeps the PooledConnection
\* after Session.close has queued it; when it is executed then and the result
\* carries a connection-closed warning, the wrapper flags the connection
\* where it lies in the idle store.  The socket is left as it is.
stale_statement(cnx) ==
    /\ \E p \in Pools : cnx \in Range(pools[p].queue)
    /\ conns[cnx].open
    /\ ~conns[cnx].server_disconnected
    /\ conns' = [conns EXCEPT ![cnx].server_disconnected = TRUE]
    /\ UNCHANGED <<pools, sessions, cur_priority, client_closed, client_close_raised, now,
                   ticks, checked_at>>
    /\ UNCHANGED <<routerVars, stmtVars, auxVars>>

seq_stale_statement(cnx) == single_threaded /\ stale_statement(cnx)

\* The steps of a single-threaded application (a wait on an empty queue can
\* then only time out, and a queue found non-empty stays so).
NextSeq ==
    \/ \E s \in Sessions : seq_get_connection(s)
    \/ \E s \in Sessions : choose_branch(s)
    \/ \E s \in Sessions : open_new_connection(s)
    \/ \E s \in Sessions : connect_ok(s)
    \/ \E s \in Sessions : connect_fails(s)
    \/ \E s \in Sessions : dequeue_ok(s)
    \/ \E s \in Sessions : dequeue_reconnect(s)
    \/ \E s \in Sessions : wait_timeout(s)
    \/ \E s \in Sessions : seq_set_server_disconnected(s)
    \/ \E s \in Sessions : seq_close_session(s)
    \/ \E s \in Sessions : close_finish(s)
    \/ seq_client_close
    \/ tick

(***************************************************************************)
(* Part 4: Connection.close_session of a directly opened Connection.       *)
(***************************************************************************)
\* Connection.set_active_result: the result of the last statement is pending.
set_active_result ==
    /\ stream_open
    /\ ~active_result
    /\ last.op = "execute"
    /\ outcome = "ok"
    /\ active_result' = TRUE
    /\ UNCHANGED <<registry, creators, last_error, stream, handshake, auth,
                   settings>>
    /\ UNCHANGED <<routerVars, stmtVars, poolVars>>

\* The protocol calls of close_session on an open Connection, in order
\* (lines 1393-1401): fetch_all of the pending result, one
\* send_prepare_deallocate per outstanding id, send_close, read_ok.
close_calls ==
    (IF active_result THEN << <<"fetch_all", None>> >> ELSE <<>>)
    \o (IF prepared_stmt_supported
        THEN [i \in DOMAIN prepared_stmt_ids |->
                 <<"deallocate", prepared_stmt_ids[i]>>]
        ELSE <<>>)
    \o << <<"close", None>>, <<"read_ok", None>> >>

\* What a call can raise.  A send goes through SocketStream.sendall, which
\* turns every OSError into OperationalError (lines 329-332); a read goes
\* through SocketStream.read, which lets the OSError of recv pass and raises
\* RuntimeError when the peer has closed the connection (lines 313-316); the
\* protocol raises InterfaceError on an unexpected or error message.
call_errors(call) ==
    IF call[1] \in {"fetch_all", "read_ok"}
    THEN {"OSError", "RuntimeError", "InterfaceError"}
    ELSE {"OperationalError"}

\* The except clause of close_session (line 1402).
close_session_catches == {"InterfaceError", "OperationalError", "OSError"}

\* Mutant: the transport is closed after the try statement, not in a finally
\* clause.
close_session_result_no_finally(kind) ==
    [outcome |-> IF kind \in close_session_catches \cup {"none"}
                 THEN "ok" ELSE kind,
     stream_open |-> kind \notin close_session_catches \cup {"none"}]

\* The try statement of close_session (lines 1391-1411) when the close
\* sequence ends with the error kind, or with none: what the caller gets and
\* the transport afterwards (SocketStream.close swallows its own OSError).
close_session_result(kind) ==
    [outcome |-> IF kind \in close_session_catches \cup {"none"}
                 THEN "ok" ELSE kind,
     stream_open |-> FALSE]

\* Connection.close_session (lines 1386-1411); the failAt-th protocol call
\* raises.
connection_close_session ==
    /\ last' = [op |-> "close", s |-> None, repeated |-> FALSE]
    /\ IF ~stream_open
       THEN /\ outcome' = "ok"
            /\ sent' = <<>>
            /\ UNCHANGED <<stream_open, stmt_counter, server_ids, id_fault,
                           active_result>>
       ELSE \E failAt \in 0..Len(close_calls) :
            \E kind \in IF failAt = 0 THEN {"none"}
                         ELSE call_errors(close_calls[failAt]) :
               LET done == IF failAt = 0 THEN close_calls
                           ELSE SubSeq(close_calls, 1, failAt - 1)
                   deallocated == {done[i][2] : i \in {j \in DOMAIN done :
                                                  done[j][1] = "deallocate"}}
                   fetched == active_result /\ failAt # 1
                   loop_done == /\ prepared_stmt_supported
                                /\ \/ failAt = 0
                                   \/ close_calls[failAt][1]
                                         \in {"close", "read_ok"}
                   R == close_session_result(kind)
               IN  /\ outcome' = R.outcome
                   /\ stream_open' = R.stream_open
                   /\ sent' = done
                   /\ active_result' = (active_result /\ ~fetched)
                   /\ stmt_counter' = IF loop_done THEN 0 ELSE stmt_counter
                   /\ server_ids' = server_ids \ deallocated
                   /\ id_fault' = (id_fault \/ deallocated \ server_ids # {})
    /\ UNCHANGED <<stmts, prepared_stmt_ids, prepared_stmt_supported,
                   prepare_rejected>>
    /\ UNCHANGED <<registry, creators, last_error, stream, handshake, auth,
                   settings>>
    /\ UNCHANGED <<routerVars, poolVars>>

\* The except clause of catch_network_exception (line 512): these exceptions
\* are answered with disconnect() and raised again as they are (line 538).
network_exceptions == {"InterfaceError", "OSError", "RuntimeError",
                       "TimeoutError"}

\* Connection.read_row under catch_network_exception (lines 1308-1315): a row
\* of the result of the last statement is read from the transport.
read_row ==
    /\ stream_open
    /\ last.op \in {"execute", "read"}
    /\ outcome = "ok"
    /\ \E kind \in {"ok"} \cup call_errors(<<"read_ok", None>>) :
          /\ outcome' = kind
          /\ stream_open' = (kind \notin network_exceptions)
    /\ last' = [op |-> "read", s |-> last.s, repeated |-> last.repeated]
    /\ UNCHANGED <<stmts, prepared_stmt_ids, prepared_stmt_supported,
                   stmt_counter, sent, server_ids, id_fault, prepare_rejected>>
    /\ UNCHANGED <<routerVars, poolVars, auxVars>>

\* Statements are executed and their results are read.
NextResult ==
    \/ \E s \in Statements : send_statement(s)
    \/ \E s \in Statements : statement_modified(s)
    \/ read_row

NextClose ==
    \/ \E s \in Statements : send_statement(s)
    \/ \E s \in Statements : statement_modified(s)
    \/ set_active_result
    \/ connection_close_session

(***************************************************************************)
(* Part 5: PoolsManager.create_pool called by concurrently created         *)
(* Sessions of one client.                                                 *)
(***************************************************************************)
\* The pool names of _get_connections_settings, in its order.
Endpoints == 1..NEndpoints

\* A thread that has not called create_pool yet.
NoCreator == [pc |-> "start", missing |-> FALSE, i |-> 1]

\* PoolsManager.__new__: no client is subscribed.
pools_manager_new ==
    /\ registry = [subscribed |-> FALSE, pools |-> <<>>]
    /\ creators = [t \in Sessions |-> NoCreator]

\* PoolsManager._pool_exists
pool_exists(pool_name) ==
    \E k \in DOMAIN registry.pools : registry.pools[k] = pool_name

\* create_pool, line 1843: the test `client_id not in self.__pools`.
create_pool_test(t) ==
    /\ creators[t].pc = "start"
    /\ creators' = [creators EXCEPT ![t].pc = "subscribe",
                                    ![t].missing = ~registry.subscribed]
    /\ UNCHANGED <<registry, active_result, last_error, stream, handshake, auth,
                   settings>>
    /\ UNCHANGED <<routerVars, stmtVars, poolVars>>

\* create_pool, line 1844: the client is subscribed with an empty list.
create_pool_subscribe(t) ==
    /\ creators[t].pc = "subscribe"
    /\ registry' = IF creators[t].missing
                   THEN [subscribed |-> TRUE, pools |-> <<>>]
                   ELSE registry
    /\ creators' = [creators EXCEPT ![t].pc = "loop"]
    /\ UNCHANGED <<active_result, last_error, stream, handshake, auth,
                   settings>>
    /\ UNCHANGED <<routerVars, stmtVars, poolVars>>

\* create_pool, lines 1847-1849: the loop head and _pool_exists.
create_pool_check(t) ==
    /\ creators[t].pc = "loop"
    /\ creators' = [creators EXCEPT
          ![t] = IF @.i > NEndpoints THEN [@ EXCEPT !.pc = "done"]
                 ELSE IF pool_exists(@.i) THEN [@ EXCEPT !.i = @ + 1]
                 ELSE [@ EXCEPT !.pc = "append"]]
    /\ UNCHANGED <<registry, active_result, last_error, stream, handshake, auth,
                   settings>>
    /\ UNCHANGED <<routerVars, stmtVars, poolVars>>

\* create_pool, lines 1850-1851: a new ConnectionPool is appended to the list
\* of the client.
create_pool_append(t) ==
    /\ creators[t].pc = "append"
    /\ registry' = [registry EXCEPT !.pools = Append(@, creators[t].i)]
    /\ creators' = [creators EXCEPT ![t].pc = "loop", ![t].i = @ + 1]
    /\ UNCHANGED <<active_result, last_error, stream, handshake, auth,
                   settings>>
    /\ UNCHANGED <<routerVars, stmtVars, poolVars>>

NextRegistry ==
    \/ \E t \in Sessions : create_pool_test(t)
    \/ \E t \in Sessions : create_pool_subscribe(t)
    \/ \E t \in Sessions : create_pool_check(t)
    \/ \E t \in Sessions : create_pool_append(t)

(***************************************************************************)
(* Part 6: PoolsManager.set_pool_unavailable as a function of the error.   *)
(***************************************************************************)
\* The keys of _TIMEOUT_PENALTIES.
PenaltyKeys == {TIMEOUT_PENALTIES[i][1] : i \in DOMAIN TIMEOUT_PENALTIES}

\* The errors set_pool_unavailable may be given: an InterfaceError or a
\* TimeoutError with no error number, with the number of the by-number table
\* or with another one, and a message containing any of the table's keys.
PenaltyErrors ==
    {Error(type, errno, msg, FALSE) :
        type \in {"InterfaceError", "TimeoutError"},
        errno \in {None, ER_SERVER_SHUTDOWN, ER_DBACCESS_DENIED},
        msg \in SUBSET PenaltyKeys}

\* set_pool_unavailable(pool, err) on an available pool.
penalize ==
    /\ \E p \in Pools :
          /\ pools[p].available
          /\ pools' = [pools EXCEPT
                          ![p] = set_pool_unavailable(@, last_error, now)]
    /\ UNCHANGED <<conns, sessions, cur_priority, client_closed,
                   client_close_raised, now, ticks, checked_at>>
    /\ UNCHANGED <<routerVars, stmtVars, auxVars>>

NextPenalty == penalize

(***************************************************************************)
(* Specifications.                                                         *)
(***************************************************************************)
InitRouter ==
    /\ router_manager_init /\ stream_init /\ AuthIdle /\ SettingsIdle
    /\ StmtIdle /\ PoolIdle /\ RegistryIdle

SpecRouter == InitRouter /\ [][NextRouter]_vars

InitAuth ==
    /\ authenticate_init
    /\ stream = SocketStream /\ handshake = Handshake(FALSE, FALSE)
    /\ SettingsIdle
    /\ RouterIdle /\ StmtIdle /\ PoolIdle /\ RegistryIdle

SpecAuth == InitAuth /\ [][NextAuth]_vars

InitStmt == connection_init /\ RouterIdle /\ PoolIdle /\ AuxIdle

SpecStmt == InitStmt /\ [][NextStmt]_vars

\* The pooling Client of a single endpoint (host and port, no routers).
InitPool ==
    client_init(<<HOST_PRIORITY>>) /\ RouterIdle /\ StmtIdle /\ AuxIdle

SpecPool == InitPool /\ [][NextPool]_vars

\* A directly opened Connection: statements are executed, results are left
\* pending, and close_session is called.
SpecClose == InitStmt /\ [][NextClose]_vars

\* Sessions of one client are created by concurrent threads: each calls
\* create_pool.
InitRegistry ==
    /\ pools_manager_new
    /\ active_result = FALSE
    /\ last_error = NoError
    /\ RouterIdle /\ StmtIdle /\ PoolIdle /\ StreamIdle

SpecRegistry == InitRegistry /\ [][NextRegistry]_vars

\* An available pool and an error: set_pool_unavailable is applied.
InitPenalty ==
    /\ client_init(<<HOST_PRIORITY>>)
    /\ last_error \in PenaltyErrors
    /\ registry = [subscribed |-> FALSE, pools |-> <<>>]
    /\ creators = <<>>
    /\ active_result = FALSE
    /\ RouterIdle /\ StmtIdle /\ StreamIdle

SpecPenalty == InitPenalty /\ [][NextPenalty]_vars

\* Insert x into a sequence sorted in ascending order, after its equals.
RECURSIVE InsertAsc(_, _)
InsertAsc(x, s) ==
    IF s = <<>> THEN <<x>>
    ELSE IF x < Head(s) THEN <<x>> \o s
    ELSE <<Head(s)>> \o InsertAsc(x, Tail(s))

\* PoolsManager._get_connections_settings on the priorities of a router
\* list: routers.sort(key=(priority, -weight)), one pool per router in that
\* order.
RECURSIVE get_connections_settings(_)
get_connections_settings(s) ==
    IF s = <<>> THEN <<>>
    ELSE InsertAsc(s[Len(s)],
                   get_connections_settings(SubSeq(s, 1, Len(s) - 1)))

\* One list of endpoints with valid priorities, given to a direct Connection
\* (RouterManager) and to a pooling Client (one pool per endpoint).
InitPrefer ==
    /\ router_manager_init /\ cpc = "connect" /\ routers # <<>>
    /\ stream_init /\ AuthIdle /\ SettingsIdle /\ StmtIdle /\ RegistryIdle
    /\ client_init(get_connections_settings(routers))

\* The first choice of either mode: connect() asks the RouterManager for its
\* first router, get_connection chooses the tier and the pool of its first
\* attempt.
NextPrefer ==
    \/ connect_next
    \/ \E s \in Sessions : seq_get_connection(s)

SpecPrefer == InitPrefer /\ [][NextPrefer]_vars

(***************************************************************************)
(* The settings dict under Connection.__init__ and the PoolsManager: the   *)
(* list settings["routers"] is handed on by reference.                     *)
(***************************************************************************)
\* What the loop of _ensure_priorities has written when it ends or raises:
\* the default for every router without priority, up to the first router
\* above 100 (ProgrammingError 4007 is raised there).
priorities_written(cfg) ==
    LET above == {i \in DOMAIN cfg : cfg[i] > 100}
        stop == IF above = {} THEN Len(cfg) + 1
                ELSE CHOOSE i \in above : \A j \in above : i <= j
    IN  [i \in DOMAIN cfg |->
            IF i < stop /\ cfg[i] = NoPriority THEN 100 ELSE cfg[i]]

\* Connection.__init__(settings): self._routers is settings["routers"]
\* itself; the host is appended to it without priority, and the
\* RouterManager writes the default priorities into it and sorts it in
\* place unless it raises.
connection_routers(S) ==
    LET appended == IF S.host THEN Append(S.routers, NoPriority)
                    ELSE S.routers
    IN  IF PriorityError(appended) = "none"
        THEN ensure_priorities(appended)
        ELSE priorities_written(appended)

\* PoolsManager._get_connections_settings(settings): settings.copy() is
\* shallow, so routers is settings["routers"] itself; the host is appended
\* with priority 100 and the list is sorted in place (the sort key raises
\* KeyError for a router without priority and leaves the list as it is).
pool_routers(S) ==
    LET appended == IF S.host THEN Append(S.routers, 100) ELSE S.routers
    IN  IF \E i \in DOMAIN appended : appended[i] = NoPriority
        THEN appended
        ELSE get_connections_settings(appended)

\* A validated configuration: the priorities of its routers are all given
\* and at most 100, or none is given.
settings_init ==
    \E cfg \in SeqsUpTo(PriorityValues, MaxRouters - 1), host \in BOOLEAN :
        /\ PriorityError(cfg) = "none"
        /\ settings = Settings(cfg, host)

\* The exception of _get_connections_settings on the list R, or "none".
pool_routers_error(R) ==
    IF \E i \in DOMAIN R : R[i] = NoPriority THEN "KeyError" ELSE "none"

\* Session.__init__ without pooling: Connection(self._settings).  (The
\* growth of the list is cut off at MaxEndpoints.)
settings_connection ==
    /\ Len(connection_routers(settings)) <= MaxEndpoints
    /\ LET appended == IF settings.host
                       THEN Append(settings.routers, NoPriority)
                       ELSE settings.routers
       IN  settings' = [settings EXCEPT
                           !.routers = connection_routers(settings),
                           !.raised = PriorityError(appended)]
    /\ UNCHANGED <<routerVars, stmtVars, poolVars, registry, creators,
                   active_result, last_error, stream, handshake, auth>>

\* PoolsManager.create_pool(settings), line 1839.
settings_create_pool ==
    /\ Len(pool_routers(settings)) <= MaxEndpoints
    /\ settings' = [settings EXCEPT
                       !.routers = pool_routers(settings),
                       !.raised = pool_routers_error(pool_routers(settings))]
    /\ UNCHANGED <<routerVars, stmtVars, poolVars, registry, creators,
                   active_result, last_error, stream, handshake, auth>>

\* PoolsManager.get_connection(settings) up to line 1961, the pools of the
\* settings being registered and available: _get_pools, then the priority of
\* the first pool is stored under "cur_priority" (pools[0] of an empty list
\* raises IndexError).
settings_get_connection ==
    /\ Len(pool_routers(settings)) <= MaxEndpoints
    /\ LET R == pool_routers(settings)
           err == IF R = <<>> THEN "IndexError" ELSE pool_routers_error(R)
       IN  settings' = [settings EXCEPT
                           !.routers = R,
                           !.raised = err,
                           !.cur_priority = IF err = "none" THEN R[1] ELSE @]
    /\ UNCHANGED <<routerVars, stmtVars, poolVars, registry, creators,
                   active_result, last_error, stream, handshake, auth>>

\* PoolsManager.close_pool(settings): _get_pools at line 2080; the carried
\* "cur_priority" stays in the settings.
settings_close_pool ==
    /\ Len(pool_routers(settings)) <= MaxEndpoints
    /\ settings' = [settings EXCEPT
                       !.routers = pool_routers(settings),
                       !.raised = pool_routers_error(pool_routers(settings))]
    /\ UNCHANGED <<routerVars, stmtVars, poolVars, registry, creators,
                   active_result, last_error, stream, handshake, auth>>

NextSettings ==
    \/ settings_connection
    \/ settings_create_pool
    \/ settings_get_connection
    \/ settings_close_pool

InitSettings ==
    /\ settings_init
    /\ stream = SocketStream /\ handshake = Handshake(FALSE, FALSE)
    /\ AuthIdle
    /\ RouterIdle /\ StmtIdle /\ PoolIdle /\ RegistryIdle

SpecSettings == InitSettings /\ [][NextSettings]_vars

\* The priorities of the endpoints of a client, in the order of
\* _get_connections_settings: two tiers, or two endpoints of one tier.
TierPriorities == {<<50, HOST_PRIORITY>>, <<HOST_PRIORITY, HOST_PRIORITY>>}

\* A pooling Client of several endpoints used from a single thread.
InitSeq ==
    /\ \E priority \in TierPriorities : client_init(priority)
    /\ RouterIdle /\ StmtIdle /\ AuxIdle

SpecSeq == InitSeq /\ [][NextSeq]_vars

\* A directly opened Connection: statements are executed and their rows read.
SpecResult == InitStmt /\ [][NextResult]_vars

\* A single-threaded client of one endpoint whose application also executes
\* statements of closed Sessions.
NextStale ==
    \/ NextSeq
    \/ \E cnx \in Conns : seq_stale_statement(cnx)

SpecStale == InitPool /\ [][NextStale]_vars

\* The Sessions of a client of one endpoint on concurrent threads, within one
\* second and while the client stays open.  A thread
\* blocked in pool.get(block=True, timeout=queue_timeout) is woken by a put
\* or by the deadline: its wait step is taken eventually.
NextWait ==
    \/ \E s \in Sessions : get_connection(s)
    \/ \E s \in Sessions : choose_branch(s)
    \/ \E s \in Sessions : open_new_connection(s)
    \/ \E s \in Sessions : connect_ok(s)
    \/ \E s \in Sessions : connect_fails(s)
    \/ \E s \in Sessions : dequeue_ok(s)
    \/ \E s \in Sessions : dequeue_reconnect(s)
    \/ \E s \in Sessions : dequeue_timeout(s)
    \/ \E s \in Sessions : wait_get(s)
    \/ \E s \in Sessions : wait_timeout(s)
    \/ \E s \in Sessions : set_server_disconnected(s)
    \/ \E s \in Sessions : close_session(s)
    \/ \E s \in Sessions : close_finish(s)

\* The Sessions of a client of two endpoints of one tier on concurrent
\* threads, within one second and while the client stays open.
InitShared ==
    /\ client_init(<<HOST_PRIORITY, HOST_PRIORITY>>)
    /\ RouterIdle /\ StmtIdle /\ AuxIdle

SpecShared == InitShared /\ [][NextWait]_vars

SpecWait ==
    /\ InitPool
    /\ [][NextWait]_vars
    /\ \A s \in Sessions : WF_vars(wait_get(s) \/ wait_timeout(s))

\* Fairness: a running connect() takes its next step (it is a sequential loop).
SpecRouterFair == SpecRouter /\ WF_vars(NextRouter)

(***************************************************************************)
(* Claims about the router (C3, C4, C5).                                   *)
(***************************************************************************)
\* The priority of the last tier.
LastPriority == routers_priority_list[Len(routers_priority_list)]

\* C3: the router that get_next_router returns is marked available and no
\* router of a higher priority is still available; for [100,100,50] with both
\* priority-100 routers unavailable the priority-50 router is returned.
C3_TierOrder ==
    (cpc = "attempt" /\ router \in DOMAIN routers) =>
        /\ router_available[router]
        /\ \A i \in DOMAIN routers :
              routers[i] > routers[router] => ~router_available[i]
        /\ (routers = <<100, 100, 50>>
            /\ ~router_available[1] /\ ~router_available[2]) => router = 3

C3_Witness ==
    /\ routers = <<100, 100, 50>>
    /\ cpc = "attempt"
    /\ ~router_available[1] /\ ~router_available[2]
    /\ router = 3

\* C4: with configured routers, can_failover turns false exactly in the call
\* of get_next_router that returns a router of the last tier while that tier
\* has fewer than two available routers; while can_failover holds the call
\* returns a router (never None); once it is false no attempt is made.
C4_Step ==
    /\ (routers # <<>> /\ can_failover /\ ~can_failover') =>
          /\ cpc = "connect" /\ cpc' = "attempt"
          /\ routers[router'] = LastPriority
          /\ Cardinality(get_available_routers(LastPriority)) < 2
    /\ (cpc = "connect" /\ cpc' = "attempt" /\ routers # <<>>
        /\ routers[router'] = LastPriority
        /\ Cardinality(get_available_routers(LastPriority)) < 2) =>
          ~can_failover'
    /\ (cpc = "connect" /\ can_failover /\ cpc' # cpc) =>
          (cpc' = "attempt" /\ IsRouter(router'))
    /\ (attempts' # attempts) => can_failover

C4_FailoverBoundary == [][C4_Step]_vars

\* The single remaining router of the last tier is returned with failover off.
C4_Witness ==
    /\ routers = <<100, 50, 50>>
    /\ cpc = "attempt"
    /\ Len(attempts) = 3
    /\ routers[router] = 50
    /\ ~can_failover

\* C5: no router is attempted twice, attempts follow the tier order, a
\* connect() whose attempts all failed has attempted every configured router
\* once when it raises, and connect() terminates.
NoDuplicates(s) == \A i, j \in DOMAIN s : i # j => s[i] # s[j]

C5_Attempts ==
    /\ NoDuplicates(attempts)
    /\ \A i, j \in DOMAIN attempts :
          (i < j /\ routers # <<>>) => routers[attempts[i]] >= routers[attempts[j]]
    /\ cpc = "exhausted" =>
          /\ raised \in {"InterfaceError", "TimeoutError"}
          /\ Range(attempts) = IF routers = <<>> THEN {DefaultRouter}
                               ELSE DOMAIN routers

C5_EveryEndpointOnce ==
    /\ []C5_Attempts
    /\ <>(cpc \in {"connected", "raised", "exhausted", "config_error"})

C5_Witness ==
    /\ cpc = "exhausted"
    /\ routers = <<100, 50, 0>>
    /\ attempts = <<1, 2, 3>>

(***************************************************************************)
(* Claims about the prepared-statement pipeline (C6 .. C9).                *)
(***************************************************************************)
\* The step is an execution of statement s that returned normally.
Executed(s) ==
    /\ last'.op = "execute"
    /\ last'.s = s
    /\ outcome' = "ok"

\* C6: on a Connection whose server accepts PREPARE, an unmodified statement
\* at (prepared=false, changed=false, repeated=false) is dispatched as prepare
\* then execute and is prepared afterwards; an unmodified prepared statement
\* is dispatched as one execute with its id and stays prepared.
C6_Step ==
    \A s \in Statements :
        (/\ Executed(s)
         /\ prepared_stmt_supported /\ prepared_stmt_supported'
         /\ ~stmts[s].changed /\ ~stmts[s].deallocate_prepare_execute) =>
            /\ (~stmts[s].prepared /\ ~last'.repeated) =>
                  /\ sent' = << <<"prepare", stmts'[s].stmt_id>>,
                                <<"execute", stmts'[s].stmt_id>> >>
                  /\ stmts'[s].prepared
                  /\ stmts'[s].stmt_id # None
            /\ stmts[s].prepared =>
                  /\ sent' = << <<"execute", stmts[s].stmt_id>> >>
                  /\ stmts'[s].prepared
                  /\ stmts'[s].stmt_id = stmts[s].stmt_id
                  /\ ~stmts'[s].changed

C7_Step ==
    /\ prepare_rejected' => ~prepared_stmt_supported'
    /\ ~prepared_stmt_supported => ~prepared_stmt_supported'
    /\ \A s \in Statements :
        /\ (Executed(s) /\ ~prepare_rejected /\ prepare_rejected') =>
              /\ Len(sent') >= 2
              /\ sent'[Len(sent')][1] = "oneshot"
              /\ sent'[Len(sent') - 1][1] = "prepare"
        /\ (Executed(s) /\ prepare_rejected) =>
              sent' = << <<"oneshot", stmts[s].stmt_id>> >>
        /\ (last'.op = "execute" /\ prepare_rejected) =>
              \A i \in DOMAIN sent' : sent'[i][1] = "oneshot"

C8_Step ==
    \A s \in Statements :
        (Executed(s) /\ sent' # <<>>) =>
            stmts'[s].exec_counter \in {stmts[s].exec_counter + 1, 1}

C8_CounterOnEveryDispatch == [][C8_Step]_vars

\* C9 (as claimed): a statement has a stmt_id only while it is prepared, its
\* id is outstanding exactly when it is prepared, no id is prepared or
\* deallocated twice.
C9_IdOnlyWhilePrepared ==
    /\ \A s \in Statements : stmts[s].stmt_id # None => stmts[s].prepared
    /\ \A s \in Statements :
          stmts[s].prepared <=> stmts[s].stmt_id \in Range(prepared_stmt_ids)
    /\ ~id_fault

\* C9 (amended): a prepared statement has a stmt_id; its id is in the list of
\* outstanding ids exactly when it is prepared; the list has no duplicates and
\* holds the ids prepared and not yet deallocated; between two prepares of an
\* id lies one deallocation of it, and no id is deallocated twice.
C9_OutstandingIds ==
    /\ \A s \in Statements : stmts[s].prepared => stmts[s].stmt_id # None
    /\ \A s \in Statements :
          stmts[s].prepared <=> stmts[s].stmt_id \in Range(prepared_stmt_ids)
    /\ NoDuplicates(prepared_stmt_ids)
    /\ Range(prepared_stmt_ids) = server_ids
    /\ ~id_fault

\* A statement prepared again after its id was deallocated.
C9_Witness ==
    /\ last.op = "execute"
    /\ outcome = "ok"
    /\ Len(sent) = 3
    /\ sent[1][1] = "deallocate" /\ sent[2][1] = "prepare"
    /\ stmts[last.s].prepared
    /\ stmts[last.s].stmt_id \in Range(prepared_stmt_ids)

(***************************************************************************)
(* Claims about the pool (C1, C2, C10).                                    *)
(***************************************************************************)
\* The Sessions whose _connection is the connection cnx.
holders(cnx) == {s \in Sessions : sessions[s].connection = cnx}

\* The connections of pool p that are open and idle in its store or held by
\* a Session.
open_in_use(p) ==
    {c \in Conns : /\ conns[c].pool = p
                   /\ conns[c].open
                   /\ (c \in Range(pools[p].queue) \/ holders(c) # {})}

\* C1: for any interleaving of get_connection calls and Session closes on one
\* pool, the connections of the pool that are open at the same time (idle in
\* the store or held by Sessions) never number more than max_size.
C1_OpenWithinMaxSize ==
    \A p \in Pools : Cardinality(open_in_use(p)) <= MaxSize

\* C2: no Connection is held by two Sessions at the same time, and a
\* Connection that sits in a pool's idle store is held by no Session.
C2_ExclusiveOwnership ==
    /\ \A c \in Conns : Cardinality(holders(c)) <= 1
    /\ \A p \in Pools : \A c \in Range(pools[p].queue) : holders(c) = {}

C10_Step ==
    \A p \in Pools :
        /\ (~pools[p].available /\ pools'[p].available)
              => ~(now < pools[p].timeout_stamp + pools[p].timeout)
        /\ (pools'[p].registered /\ ~pools'[p].available)
              => ~(checked_at' > pools'[p].timeout_stamp + pools'[p].timeout)

\* C10: a pool marked unavailable at time T with penalty P stays unavailable
\* at every moment before T+P (no availability check made before T+P revives
\* it), and no availability check made after T+P leaves it unavailable: a
\* registered pool that is unavailable has seen no check later than T+P.
C10_PenaltyWindow == [][C10_Step]_vars

\* A pool that was penalized has been revived by the latest availability
\* check, made after the clock advanced.
C10_Witness ==
    \E p \in Pools :
        /\ pools[p].available
        /\ pools[p].timeout > 0
        /\ pools[p].timeout_stamp = checked_at
        /\ checked_at > pools[p].timeout
        /\ ticks > 0

(* Claims about get_connection over several pools (C13). *)
\* The positions of a Session inside get_connection.
InCall == {"try", "dequeue", "open", "connect", "wait"}

\* C13: get_connection raises only when no pool of any tier is available any
\* more, and then a PoolError whose message holds every error recorded during
\* the call, the last failure included; a failure on one pool while another
\* pool is available leads to an available pool.
C13_Step ==
    \A s \in Sessions :
        LET failed == /\ sessions[s].pc \in InCall
                      /\ sessions'[s].pc \in {"try", "raised"}
        IN  /\ (sessions[s].pc \in InCall \cup {"new"}
                    /\ sessions'[s].pc = "raised") =>
                  /\ \A p \in Pools : ~pools'[p].available
                  /\ sessions'[s].raised = "PoolError"
            /\ (failed /\ sessions'[s].pc = "raised") =>
                  /\ Len(sessions'[s].message) = Len(sessions[s].error_list) + 1
                  /\ \A i \in DOMAIN sessions[s].error_list :
                        sessions'[s].message[i] = sessions[s].error_list[i]
                  /\ sessions'[s].message[Len(sessions'[s].message)][1]
                        = sessions[s].pool
            /\ (failed /\ \E p \in Pools : pools'[p].available) =>
                  /\ sessions'[s].pc = "try"
                  /\ pools'[sessions'[s].pool].available

C16_ClientClosed ==
    client_closed =>
        /\ \A p \in Pools : ~pools[p].registered
        /\ \A c \in Conns : conns[c].pool # None => ~conns[c].open

(* Claims about PoolsManager.set_pool_unavailable (C12). *)
\* The keys that follow key in _TIMEOUT_PENALTIES.
keys_after(key) ==
    {TIMEOUT_PENALTIES[j][1] : j \in
        {k \in DOMAIN TIMEOUT_PENALTIES :
            \E i \in DOMAIN TIMEOUT_PENALTIES :
                TIMEOUT_PENALTIES[i][1] = key /\ i < k}}

\* C12 as stated: every message containing "[Errno 111]" gives 1000000
\* seconds and every message containing "Access denied" gives 86400 seconds,
\* unless the error number is in the by-number table.
C12_AsStated ==
    \A p \in Pools :
        ~pools[p].available =>
            LET e == last_error
                penalty == pools[p].timeout
            IN  /\ e.errno = 1053 => penalty = 60
                /\ e.errno # 1053 =>
                      /\ "Access denied" \in e.msg => penalty = 86400
                      /\ "[Errno 111]" \in e.msg => penalty = 1000000
                      /\ e.msg = {} => penalty = 100000

\* C12: the penalty of a pool marked by set_pool_unavailable.  An error whose
\* number is in the by-number table gives that table's penalty whatever its
\* message contains.  Otherwise a message containing "Access denied" gives
\* 86400 seconds, a message containing "[Errno 111]" and no key listed after
\* it gives 1000000 seconds, and a message containing no key gives the long
\* default.
C12_PenaltyPrecedence ==
    \A p \in Pools :
        ~pools[p].available =>
            LET e == last_error
                penalty == pools[p].timeout
            IN  /\ e.errno = 1053 => penalty = 60
                /\ e.errno # 1053 =>
                      /\ "Access denied" \in e.msg => penalty = 86400
                      /\ (/\ "[Errno 111]" \in e.msg
                          /\ e.msg \cap keys_after("[Errno 111]") = {})
                            => penalty = 1000000
                      /\ e.msg = {} => penalty = 100000

\* A pool was marked for an error whose number is in the by-number table and
\* whose message contains "Access denied".
C12_Witness ==
    \E p \in Pools :
        /\ ~pools[p].available
        /\ last_error.errno = ER_SERVER_SHUTDOWN
        /\ "Access denied" \in last_error.msg
        /\ pools[p].timeout = PENALTY_RESTARTING

(* Claims about PoolsManager.create_pool (C17). *)
\* C17: under every interleaving of create_pool calls of one client no two
\* pools of the registry have the same name, and once a call has returned the
\* registry holds a pool for every endpoint.
C17_OnePoolPerEndpoint ==
    /\ \A j, k \in DOMAIN registry.pools :
          registry.pools[j] = registry.pools[k] => j = k
    /\ (\E t \in DOMAIN creators : creators[t].pc = "done") =>
          \A e \in Endpoints : pool_exists(e)

(* Claims about Connection.close_session (C18, C19). *)
\* C18: whenever close_session has finished, by returning or by raising, the
\* transport is closed; and close_session on an already closed Connection
\* changes nothing of the Connection and writes nothing.
C18_Step ==
    last'.op = "close" =>
        /\ ~stream_open'
        /\ ~stream_open =>
              /\ sent' = <<>>
              /\ outcome' = "ok"
              /\ UNCHANGED <<stmts, prepared_stmt_ids, prepared_stmt_supported,
                             stmt_counter, active_result, server_ids>>

C18_TransportClosed == [][C18_Step]_vars

\* close_session has raised out of a close sequence that had already written
\* a deallocation, and the transport is closed.
C18_Witness ==
    /\ last.op = "close"
    /\ outcome = "RuntimeError"
    /\ \E i \in DOMAIN sent : sent[i][1] = "deallocate"
    /\ ~stream_open

\* C19: close_session returns normally whatever transport-level error occurs
\* during the close sequence.
C19_NeverRaises ==
    last.op = "close" => outcome = "ok"

(* Claims about Session.close on a pooled connection (C14, C15). *)
\* The pool a Session's connection belongs to.
pool_of(s) == conns[sessions[s].connection].pool

\* Session.close of session s starts in this step (line 2462).
closes(s) == sessions[s].pc = "held" /\ sessions'[s].pc # "held"

\* C14: add_connection on a pool whose idle store already holds max_size
\* connections raises the pool-full PoolError and leaves the idle store and the
\* opened connections of the pool as they were; below max_size an unflagged
\* connection is appended to the idle store.
C14_Step ==
    \A s \in Sessions :
        closes(s) =>
            LET p == pool_of(s)
            IN  /\ Len(pools[p].queue) = MaxSize =>
                      /\ sessions'[s].pc = "close_raised"
                      /\ sessions'[s].raised = "PoolError"
                      /\ pools'[p].queue = pools[p].queue
                      /\ pools'[p].connections_openned
                            = pools[p].connections_openned
                /\ (/\ Len(pools[p].queue) < MaxSize
                    /\ ~conns[sessions[s].connection].server_disconnected) =>
                      /\ sessions'[s].pc = "closing"
                      /\ pools'[p].queue
                            = Append(pools[p].queue, sessions[s].connection)

C14_PoolFull == [][C14_Step]_vars

\* A Session.close was refused by a pool whose idle store holds max_size
\* connections.
C14_Witness ==
    \E s \in Sessions :
        /\ sessions[s].pc = "close_raised"
        /\ sessions[s].raised = "PoolError"
        /\ Len(pools[pool_of(s)].queue) = MaxSize

\* C15: Session.close on a pooled connection puts the connection into the idle
\* store of its pool with the transport as it was, and once Session.close has
\* finished the Session holds that connection no longer.
C15_Step ==
    \A s \in Sessions :
        /\ closes(s) =>
              /\ sessions[s].connection \in Range(pools'[pool_of(s)].queue)
              /\ conns'[sessions[s].connection].open
                    = conns[sessions[s].connection].open
        /\ sessions'[s].pc \in {"closed", "close_raised"} =>
              sessions'[s].connection = Unconnected

C15_CloseReturnsConnection == [][C15_Step]_vars

\* C11: in every reachable state a pool whose available() is false is still
\* inside its penalty window: now < penalty timestamp + penalty seconds.
C11_UnavailableOnlyInWindow ==
    \A p \in Pools :
        (pools[p].registered /\ ~pools[p].available)
            => now < pools[p].timeout_stamp + pools[p].timeout

(***************************************************************************)
(* Claims about errors of statement operations (C20).                      *)
(***************************************************************************)
\* C20: when a statement operation fails in flight, whatever the error, the
\* transport of the Connection is closed by the time the error reaches the
\* caller.
C20_ClosedOnError ==
    (last.op = "execute" /\ outcome # "ok") => ~stream_open

(***************************************************************************)
(* Claims about modified statements (C29, C30).                            *)
(***************************************************************************)
\* The kinds of the messages of a run, in order.
kinds(messages) == [i \in DOMAIN messages |-> messages[i][1]]

\* What C29 asks of an execution of statement s.
C29_OneShot(s) ==
    /\ kinds(sent') = (IF stmts[s].prepared THEN <<"deallocate">> ELSE <<>>)
                          \o <<"oneshot">>
    /\ ~stmts'[s].prepared
    /\ ~stmts'[s].changed
    /\ stmts'[s].exec_counter = 1

\* C29 as stated: every execution of a statement with changed=true
\* deallocates the id if prepared, sends a one-shot and nothing else, and leaves
\* prepared=false, changed=false and the execution counter at 1.
C29_Step_AsStated ==
    \A s \in Statements :
        (Executed(s) /\ stmts[s].changed) => C29_OneShot(s)

C29_AsStated == [][C29_Step_AsStated]_vars

\* C29: on a Connection that supports prepared statements, an execution of a
\* statement with changed=true that is not flagged deallocate_prepare_execute
\* deallocates the id if prepared, sends a one-shot and no prepare or
\* execute, and leaves prepared=false, changed=false and the execution counter
\* reset and then incremented.
C29_Step ==
    \A s \in Statements :
        (/\ Executed(s)
         /\ stmts[s].changed
         /\ ~stmts[s].deallocate_prepare_execute
         /\ prepared_stmt_supported) => C29_OneShot(s)

C29_ChangedIsOneShot == [][C29_Step]_vars

\* A prepared statement was executed after a change: deallocate and one-shot.
C29_Witness ==
    /\ last.op = "execute"
    /\ outcome = "ok"
    /\ kinds(sent) = <<"deallocate", "oneshot">>
    /\ ~stmts[last.s].prepared
    /\ ~stmts[last.s].changed
    /\ stmts[last.s].exec_counter = 1

\* C30: an execution of a statement flagged deallocate_prepare_execute whose
\* prepare the server accepts sends deallocate (if prepared), prepare, execute
\* in this order; afterwards the flag is cleared, the statement is prepared,
\* changed is false and the execution counter is 1.
C30_Step ==
    \A s \in Statements :
        (/\ Executed(s)
         /\ stmts[s].deallocate_prepare_execute
         /\ prepared_stmt_supported /\ prepared_stmt_supported') =>
            /\ kinds(sent') =
                  (IF stmts[s].prepared THEN <<"deallocate">> ELSE <<>>)
                      \o <<"prepare", "execute">>
            /\ ~stmts'[s].deallocate_prepare_execute
            /\ stmts'[s].prepared
            /\ ~stmts'[s].changed
            /\ stmts'[s].exec_counter = 1

C30_FlaggedReprepares == [][C30_Step]_vars

(***************************************************************************)
(* Claims about the errors a caller receives (C21).                        *)
(***************************************************************************)
\* The error kinds of the taxonomy.
Taxonomy == {"InterfaceError", "OperationalError", "ProgrammingError",
             "PoolError", "TimeoutError", "NotSupportedError"}

\* C21: whatever a statement operation raises to its caller is one of the
\* kinds of the taxonomy, never a raw transport exception.
C21_TypedErrors ==
    last.op \in {"execute", "read"} => outcome \in {"ok"} \cup Taxonomy

(***************************************************************************)
(* Claims about the transport of connect() (C22, C23, C24).                *)
(***************************************************************************)

\* connect() has caught an error and is back at the loop head, or has raised.
AttemptFailed ==
    \/ cpc = "connect" /\ handshake.errors # <<>>
    \/ cpc = "exhausted"
    \/ cpc = "raised" /\ attempts # <<>>

\* C22: after a failed attempt of connect() the transport it opened is closed
\* before the next candidate is tried and before the error propagates: the
\* stream holds no open socket at the loop head and at the raise.
C22_FailedAttemptClosesTransport ==
    AttemptFailed => ~stream.socket

\* C23: when connect() exhausts its candidates it raises TimeoutError if a
\* socket timeout was caught on any attempt and InterfaceError otherwise, with
\* the single-endpoint message for at most one configured endpoint and the
\* multi-endpoint message for several.
C23_ExhaustedClassification ==
    cpc = "exhausted" =>
        /\ raised = (IF "timeout" \in Range(handshake.errors)
                     THEN "TimeoutError" ELSE "InterfaceError")
        /\ handshake.message = (IF Len(routers) <= 1 THEN "single" ELSE "multi")

\* C24: with TLS not disabled and no Unix socket, credentials are sent only
\* on a transport on which TLS was established; an attempt on a server that
\* does not advertise TLS ends with an error raised, no credentials sent and
\* the transport closed.
C24_TlsBeforeAuthentication ==
    (~handshake.ssl_disabled /\ ~handshake.unix) =>
        /\ handshake.credentials => stream.wrapped
        /\ (cpc # "attempt" /\ handshake.caps = "plain") =>
              /\ cpc = "raised"
              /\ ~handshake.credentials
              /\ ~stream.socket

(***************************************************************************)
(* Claims about the branch get_connection takes (C26).                     *)
(***************************************************************************)

\* The idle store of the pool session s selected holds n connections.
Idle(s) == Len(pools[sessions[s].pool].queue)

\* The connections the pool of session s tracks.
Tracked(s) == Cardinality(pools[sessions[s].pool].connections_openned)

\* C26: a get_connection call running alone dequeues whenever the idle store
\* of the selected pool is non-empty, opens a new connection only when the
\* store is empty and the pool is below capacity, and waits only when the
\* store is empty and the pool is at capacity; a new connection is never
\* created while an idle one is available.
C26_Step ==
    \A s \in Sessions :
        /\ (sessions[s].pc = "try" /\ sessions'[s].pc # "try") =>
              /\ Idle(s) > 0 => sessions'[s].pc = "dequeue"
              /\ sessions'[s].pc = "open" => (Idle(s) = 0 /\ Tracked(s) < MaxSize)
              /\ sessions'[s].pc = "wait" => (Idle(s) = 0 /\ Tracked(s) >= MaxSize)
              /\ sessions'[s].pc \in {"dequeue", "open", "wait"}
        /\ (sessions[s].pc = "open" /\ sessions'[s].pc = "connect") =>
              /\ Idle(s) = 0
              /\ Cardinality(DOMAIN conns') >= Cardinality(DOMAIN conns)

C26_BranchByPoolState == [][C26_Step]_vars

\* A call has chosen to dequeue from a non-empty idle store while another
\* call of the client had to wait at capacity before.
C26_Witness ==
    \E s \in Sessions :
        /\ sessions[s].pc = "dequeue"
        /\ Idle(s) > 0
        /\ Tracked(s) >= MaxSize

(***************************************************************************)
(* Claims about a flagged connection taken from the idle store (C27).      *)
(***************************************************************************)

\* Session s is about to dequeue a connection flagged server-disconnected.
DequeuesFlagged(s) ==
    /\ sessions[s].pc = "dequeue"
    /\ pools[sessions[s].pool].queue # <<>>
    /\ conns[Head(pools[sessions[s].pool].queue)].server_disconnected

\* C27: when get_connection dequeues a flagged connection, that connection
\* and every idle sibling are closed and no longer tracked by the pool, and
\* the connection handed to the caller is another one, freshly opened.
C27_Step ==
    \A s \in Sessions :
        (DequeuesFlagged(s) /\ sessions'[s] # sessions[s]) =>
            LET p == sessions[s].pool
                idle == Range(pools[p].queue)
            IN  /\ \A c \in idle :
                      /\ ~conns'[c].open
                      /\ c \notin pools'[p].connections_openned
                      /\ c \notin Range(pools'[p].queue)
                /\ sessions'[s].pc = "held" =>
                      /\ sessions'[s].connection \notin idle
                      /\ conns'[sessions'[s].connection].open
                      /\ ~conns'[sessions'[s].connection].server_disconnected

C27_FlaggedIsReplaced == [][C27_Step]_vars

(***************************************************************************)
(* Claims about returning a flagged connection (C28).                      *)
(***************************************************************************)

\* C28: when add_connection gets a pooled connection that is flagged
\* server-disconnected, the idle connections of the pool are all closed and
\* removed, the passed connection is closed and not put into the idle store,
\* and the idle store holds no flagged connection afterwards.
C28_Step ==
    \A s \in Sessions :
        (closes(s) /\ conns[sessions[s].connection].server_disconnected
                   /\ Len(pools[pool_of(s)].queue) < MaxSize) =>
            LET cnx == sessions[s].connection
                p == pool_of(s)
            IN  /\ \A c \in Range(pools[p].queue) :
                      /\ ~conns'[c].open
                      /\ c \notin pools'[p].connections_openned
                /\ ~conns'[cnx].open
                /\ cnx \notin Range(pools'[p].queue)
                /\ \A c \in Range(pools'[p].queue) :
                      ~conns'[c].server_disconnected

C28_FlaggedIsClosed == [][C28_Step]_vars

(***************************************************************************)
(* Claims about waiting for a connection (C25).                            *)
(***************************************************************************)

\* Session s leaves the wait on the idle store in this step.
WaitEnds(s) == sessions[s].pc = "wait" /\ sessions'[s] # sessions[s]

\* The error the except clause of get_connection recorded in this step.
Recorded(s) ==
    IF sessions'[s].pc = "raised"
    THEN sessions'[s].message[Len(sessions'[s].message)]
    ELSE sessions'[s].error_list[Len(sessions'[s].error_list)]

\* The call of s got the connection at the head of the idle store.
GotIdle(s) ==
    LET q == pools[sessions[s].pool].queue
    IN  /\ sessions'[s].pc = "held"
        /\ sessions'[s].connection = Head(q)
        /\ pools'[sessions[s].pool].queue = Tail(q)

\* The wait ended with the error `type` on the pool of s.
WaitFailed(s, type) ==
    /\ sessions'[s].pc # "held"
    /\ Recorded(s) = <<sessions[s].pool, type>>

\* The literal reading: a returned connection is always handed to the caller.
C25_Step_AsStated ==
    \A s \in Sessions :
        WaitEnds(s) =>
            IF pools[sessions[s].pool].queue # <<>>
            THEN GotIdle(s)
            ELSE WaitFailed(s, "PoolError")

C25_Step ==
    \A s \in Sessions :
        WaitEnds(s) =>
            IF pools[sessions[s].pool].queue # <<>>
            THEN GotIdle(s) \/ WaitFailed(s, "InterfaceError")
            ELSE WaitFailed(s, "PoolError")

ExhaustionFailure(s) ==
    /\ sessions[s].pc \in {"wait", "dequeue"}
    /\ sessions'[s].pc \in {"try", "raised"}
    /\ Recorded(s) = <<sessions[s].pool, "PoolError">>

\* The penalties set_pool_unavailable gives for a network fault.
NetworkPenalties ==
    {TIMEOUT_PENALTIES[i][2] : i \in DOMAIN TIMEOUT_PENALTIES}
    \cup {PENALTY_RESTARTING, PENALTY_OTHER}

\* The pool p carries the short penalty, given in this step.
ShortPenalty(p) ==
    /\ ~pools'[p].available
    /\ pools'[p].timeout = PENALTY_POOL_ERROR
    /\ pools'[p].timeout_stamp = now
    /\ \A n \in NetworkPenalties : PENALTY_POOL_ERROR < n

\* No pool but p is made unavailable or has its penalty changed.
OthersKept(p) ==
    \A q \in Pools \ {p} :
        /\ pools[q].available => pools'[q].available
        /\ pools'[q].timeout = pools[q].timeout

\* The literal reading: the failed pool always gets the short penalty.
C31_Step_AsStated ==
    \A s \in Sessions :
        ExhaustionFailure(s) =>
            ShortPenalty(sessions[s].pool) /\ OthersKept(sessions[s].pool)

C31_Step ==
    \A s \in Sessions :
        ExhaustionFailure(s) =>
            LET p == sessions[s].pool
            IN  /\ IF pools[p].available
                   THEN ShortPenalty(p)
                   ELSE pools'[p] = pools[p]
                /\ OthersKept(p)

Unconfigured == auth.setting = "none"

\* The mechanisms that have failed so far, and the exceptions they raised.
FailedMechanisms(a) == [i \in DOMAIN a.failed |-> a.failed[i][1]]
FailedWith(a) == [i \in DOMAIN a.failed |-> a.failed[i][2]]

BothFailed(a) == FailedMechanisms(a) = <<"MYSQL41", "SHA256_MEMORY">>

CombinedError(a) ==
    a.error = "InterfaceError" /\ a.message = "MYSQL41 and SHA256_MEMORY"

\* The order of the mechanisms without a configured one: PLAIN alone on a
\* secure stream; otherwise MYSQL41 first, and SHA256_MEMORY entered in the
\* step in which MYSQL41 has failed.
MechanismOrder ==
    Unconfigured =>
        IF is_secure(auth)
        THEN Range(auth'.attempted) \subseteq {"PLAIN"}
        ELSE /\ auth'.attempted \in {<<>>, <<"MYSQL41">>,
                                     <<"MYSQL41", "SHA256_MEMORY">>}
             /\ Len(auth'.attempted) = 2 =>
                    FailedMechanisms(auth')[1] = "MYSQL41"

\* C32 as stated: without a configured mechanism the order above holds, and
\* whenever both mechanisms have failed the call ends with the one
\* InterfaceError that names both.
C32_Step_AsStated ==
    /\ MechanismOrder
    /\ (Unconfigured /\ auth'.pc = "raised" /\ BothFailed(auth'))
           => CombinedError(auth')

C32_Step ==
    /\ MechanismOrder
    /\ (Unconfigured /\ ~is_secure(auth)) =>
          /\ Len(auth'.attempted) = 2 =>
                 auth'.failed[1] = <<"MYSQL41", "InterfaceError">>
          /\ (auth.pc = "running" /\ auth.mechanism = "MYSQL41"
              /\ Len(auth'.failed) = 1 /\ auth'.pc # "raised") =>
                 auth'.attempted = <<"MYSQL41", "SHA256_MEMORY">>
          /\ auth'.pc = "raised" =>
                 IF BothFailed(auth')
                    /\ FailedWith(auth') = <<"InterfaceError", "InterfaceError">>
                 THEN CombinedError(auth')
                 ELSE /\ ~CombinedError(auth')
                      /\ auth'.error = FailedWith(auth')[Len(auth'.failed)]

PlainSent(a) == \E i \in DOMAIN a.sent : a.sent[i][1] = "PLAIN"

Dispatches == {i \in DOMAIN sent' : sent'[i][1] \in {"execute", "oneshot"}}

\* C39: every execution that returns from the pipeline has dispatched the
\* statement exactly once, as an execute or as a one-shot, whatever the
\* values of prepared, changed, repeated and deallocate_prepare_execute; in
\* particular none returns with nothing sent and the counter incremented.
C39_Step ==
    \A s \in Statements :
        Executed(s) =>
            /\ Cardinality(Dispatches) = 1
            /\ ~(sent' = <<>>
                 /\ stmts'[s].exec_counter = stmts[s].exec_counter + 1)

C39_DispatchedOnce == [][C39_Step]_vars

(***************************************************************************)
(* Claims about the priority tier of get_connection (C33).                 *)
(***************************************************************************)
\* The step is the start of a get_connection call of session s (lines
\* 1951-1962) with a carried cur_priority.
StartsCarried(s) ==
    /\ sessions[s].pc = "new"
    /\ sessions'[s].pc # "new"
    /\ cur_priority # None

\* The tier has an available pool when the call chooses (after the revival
\* check of line 1954).
TierAvailable(priority) ==
    \E p \in Pools : pools'[p].priority = priority /\ pools'[p].available

\* C33: the tier on which a call ended is carried in cur_priority (a
\* returned connection belongs to a pool of that tier), and the next call
\* starts on the carried tier as long as that tier has an available pool; it
\* starts on another tier only when the carried tier has none.
C33_Step ==
    \A s \in Sessions :
        /\ (sessions[s].pc # "held" /\ sessions'[s].pc = "held") =>
               pools'[conns'[sessions'[s].connection].pool].priority
                   = cur_priority'
        /\ StartsCarried(s) =>
              /\ TierAvailable(cur_priority) =>
                    /\ cur_priority' = cur_priority
                    /\ sessions'[s].pc = "try"
                    /\ pools'[sessions'[s].pool].priority = cur_priority
              /\ cur_priority' # cur_priority => ~TierAvailable(cur_priority)

C33_StickyTier == [][C33_Step]_vars

(***************************************************************************)
(* Claims about what get_connection hands out (C35, C36).                  *)
(***************************************************************************)
\* get_connection returns to session s in this step.
Returns(s) == sessions[s].pc # "held" /\ sessions'[s].pc = "held"

\* C35: every connection that get_connection returns is open (its connect
\* and authentication succeeded and its transport was not closed): the call
\* returns such a connection or raises.
C35_Step ==
    \A s \in Sessions :
        Returns(s) =>
            /\ sessions'[s].connection \in Conns
            /\ conns'[sessions'[s].connection].open

C35_ReturnedIsOpen == [][C35_Step]_vars

\* The connections of pool p that are open and idle in its store or held by
\* a Session.
ActuallyOpen(p) ==
    {c \in Conns :
        /\ conns[c].pool = p
        /\ conns[c].open
        /\ \/ c \in Range(pools[p].queue)
           \/ \E s \in Sessions : /\ sessions[s].pc = "held"
                                  /\ sessions[s].connection = c}

\* C36: whenever no call is running, open_connections of every pool of an
\* open client is the number of its connections that are actually open, so a
\* failed connect has consumed no capacity: a pool without an open
\* connection counts 0 and can still open max_size connections.
C36_OpenCountIsExact ==
    (single_threaded /\ ~client_closed) =>
        \A p \in Pools :
            pools[p].registered =>
                /\ open_connections(pools[p]) = Cardinality(ActuallyOpen(p))
                /\ ActuallyOpen(p) = {} =>
                       open_connections(pools[p]) + MaxSize <= MaxSize

(***************************************************************************)
(* Claims about the end of a get_connection call (C37).                    *)
(***************************************************************************)
\* Session s is inside the loop of get_connection, on some pool.
InLoop(s) == sessions[s].pc \in {"try", "open", "connect", "dequeue", "wait"}

\* The pools that have failed in the running call of session s.
FailedPools(s) ==
    {sessions[s].error_list[i][1] : i \in DOMAIN sessions[s].error_list}

\* C37: within one get_connection call a pool that has failed is not tried
\* again, also when its penalty elapses during the call: the pool the call
\* is on has not failed in it, and the call makes at most one attempt per
\* pool before it raises the aggregated error (which bounds the call when
\* queue_timeout is finite).
C37_OneAttemptPerPool ==
    \A s \in Sessions :
        /\ InLoop(s) => sessions[s].pool \notin FailedPools(s)
        /\ Len(sessions[s].error_list) <= Cardinality(Pools)

(***************************************************************************)
(* Claims about the order of preference of the two modes (C38).            *)
(***************************************************************************)
\* The highest priority value of the endpoint list.
HighestPriority ==
    CHOOSE x \in Range(routers) : \A y \in Range(routers) : y <= x

\* C38: for one endpoint list both modes try the same tier first: the first
\* router of a direct Connection and the first pool tier of get_connection
\* both have the highest priority value of the list.
C38_Step ==
    /\ (attempts = <<>> /\ attempts' # <<>>) =>
           routers[attempts'[1]] = HighestPriority
    /\ ((\A s \in Sessions : sessions[s].pc = "new")
        /\ \E s \in Sessions : sessions'[s].pc = "try") =>
           /\ cur_priority' = HighestPriority
           /\ cur_priority' = routers_priority_list[1]
           /\ \A s \in Sessions :
                  sessions'[s].pc = "try" =>
                      pools'[sessions'[s].pool].priority = HighestPriority

C38_SameTierFirst == [][C38_Step]_vars

(***************************************************************************)
(* Claims about the configuration (C34).                                   *)
(***************************************************************************)
\* C34: the endpoint list of a configuration is never changed by
\* constructing a Connection from it or by create_pool, get_connection and
\* close_pool, however often they are called: it stays the list that was
\* built.
C34_EndpointsUnchanged == settings.routers = settings.built

====
